---- MODULE Spec2Model ----
(***************************************************************************)
(* A model of bruno-mcp-tools: discovery of .bru request files, derivation *)
(* of tool names, the start-up sequence of the MCP server, and the         *)
(* execution of one Bruno CLI subprocess per tool call.                    *)
(*                                                                         *)
(* Strings are sequences of characters; a character is a one-character     *)
(* string, or a token "U+XXXX" standing for one non-ASCII code point.      *)
(***************************************************************************)
EXTENDS Integers, Sequences, FiniteSets, TLC

VARIABLES
    segIn,      \* sanitizeSegment: the input string x
    segOut,     \* sanitizeSegment(x), once computed
    segOut2,    \* sanitizeSegment(sanitizeSegment(x)), once computed
    segStage,   \* how many applications have been made (0, 1, 2)
    nmFiles,    \* buildCollectionToolMap: params.bruFilesAbs
    nmResult,   \* what buildCollectionToolMap settled with, once it has
    fsTree,     \* discoverBruFiles: the file tree under the root
    dirOrder,   \* the order in which fs.readdir lists a directory
    dsResult,   \* what discoverBruFiles settled with, once it has
    procArgv,   \* main: process.argv.slice(2)
    mainPc,     \* main: the statement it is at
    mainConfig, \* main: the ServerConfig, once parsed
    mainPrefix, \* main: the derived prefix
    srvTools,   \* createAndRunMcpServer: params.tools
    toolsAtStart, \* the registry main handed to createAndRunMcpServer
    exitCode,   \* process.exitCode
    startError, \* the error main().catch received, if any
    calls,      \* the call-tool requests, by order of arrival
    lists,      \* the responses to the list-tools requests so far
    procEnv,    \* process.env of the server
    tmpFiles,   \* the files under os.tmpdir(), as <<path, content>> pairs
    fnIn,       \* the argument a function under test is applied to
    fnOut       \* what the function returned or threw, once applied

sanVars == <<segIn, segOut, segOut2, segStage>>

nmVars == <<nmFiles, nmResult>>

dsVars == <<fsTree, dirOrder, dsResult>>

srvVars == <<procArgv, mainPc, mainConfig, mainPrefix, srvTools, toolsAtStart, exitCode,
             startError, calls, lists>>

osVars == <<procEnv, tmpFiles>>

fnVars == <<fnIn, fnOut>>

vars == <<sanVars, nmVars, dsVars, srvVars, osVars, fnVars>>

(***************************************************************************)
(* Bounds of the model.                                                    *)
(***************************************************************************)
MaxSegLen == 4

\* the longest file list handed to buildCollectionToolMap
MaxFiles == 3

\* the largest number of directory entries of a file tree
MaxEntries == 6

\* the call-tool requests one behaviour makes
MaxCalls == 2

\* the list-tools requests one behaviour makes
MaxLists == 2

(***************************************************************************)
(* Characters.                                                             *)
(***************************************************************************)
UpperLetters ==
    <<"A","B","C","D","E","F","G","H","I","J","K","L","M",
      "N","O","P","Q","R","S","T","U","V","W","X","Y","Z">>

LowerLetters ==
    <<"a","b","c","d","e","f","g","h","i","j","k","l","m",
      "n","o","p","q","r","s","t","u","v","w","x","y","z">>

Digits == {"0","1","2","3","4","5","6","7","8","9"}

Range(f) == { f[i] : i \in DOMAIN f }

\* the character class [a-z0-9]
LowerAlnum == Range(LowerLetters) \cup Digits

\* the character class [A-Z0-9]
UpperAlnum == Range(UpperLetters) \cup Digits

\* String.prototype.toLowerCase on one character: a sequence, because the
\* lower-case form of U+0130 is two code points (i, U+0307).
LowerOfChar(c) ==
    IF c \in Range(UpperLetters)
    THEN <<LowerLetters[CHOOSE i \in DOMAIN UpperLetters : UpperLetters[i] = c]>>
    ELSE IF c = "U+0130" THEN <<"i", "U+0307">>
    ELSE IF c = "U+00C9" THEN <<"U+00E9">>
    ELSE <<c>>

RECURSIVE ToLowerCase(_)
ToLowerCase(s) ==
    IF s = <<>> THEN <<>> ELSE LowerOfChar(Head(s)) \o ToLowerCase(Tail(s))

\* s.replace(/[^K]+/g, rep) for a character class K: every maximal run of
\* characters outside `keep` becomes `rep`.
RECURSIVE ReplaceRunsOutside(_, _, _)
ReplaceRunsOutside(s, keep, rep) ==
    IF s = <<>> THEN <<>>
    ELSE IF Head(s) \in keep
         THEN <<Head(s)>> \o ReplaceRunsOutside(Tail(s), keep, rep)
         ELSE LET RECURSIVE SkipRun(_)
                  SkipRun(t) == IF t # <<>> /\ Head(t) \notin keep
                                THEN SkipRun(Tail(t)) ELSE t
              IN  rep \o ReplaceRunsOutside(SkipRun(Tail(s)), keep, rep)

RECURSIVE StripLeading(_, _)
StripLeading(s, c) ==
    IF s # <<>> /\ Head(s) = c THEN StripLeading(Tail(s), c) ELSE s

RECURSIVE StripTrailing(_, _)
StripTrailing(s, c) ==
    IF s # <<>> /\ s[Len(s)] = c
    THEN StripTrailing(SubSeq(s, 1, Len(s) - 1), c) ELSE s

\* s.replace(/^_+|_+$/g, '')
StripUnderscores(s) == StripTrailing(StripLeading(s, "_"), "_")

\* s.replace(/_+/g, '_')
RECURSIVE CollapseUnderscores(_)
CollapseUnderscores(s) ==
    IF s = <<>> THEN <<>>
    ELSE IF Head(s) = "_"
         THEN <<"_">> \o CollapseUnderscores(StripLeading(Tail(s), "_"))
         ELSE <<Head(s)>> \o CollapseUnderscores(Tail(s))

\* A plausible slip: the leading/trailing strip is left out.
sanitizeSegmentNoStrip(input) ==
    CollapseUnderscores(ReplaceRunsOutside(ToLowerCase(input), LowerAlnum, <<"_">>))

sanitizeSegment(input) ==
    CollapseUnderscores(
        StripUnderscores(
            ReplaceRunsOutside(ToLowerCase(input), LowerAlnum, <<"_">>)))

(***************************************************************************)
(* Paths (POSIX flavour of node:path; path.sep is "/").                    *)
(***************************************************************************)
PathSep == "/"

\* s.split(c) for a one-character separator
RECURSIVE SplitOn(_, _)
SplitOn(s, c) ==
    IF \A i \in 1..Len(s) : s[i] # c THEN <<s>>
    ELSE LET k == CHOOSE i \in 1..Len(s) :
                     s[i] = c /\ \A j \in 1..(i - 1) : s[j] # c
         IN  <<SubSeq(s, 1, k - 1)>> \o SplitOn(SubSeq(s, k + 1, Len(s)), c)

\* parts.join(sep)
RECURSIVE JoinWith(_, _)
JoinWith(parts, sep) ==
    IF parts = <<>> THEN <<>>
    ELSE IF Len(parts) = 1 THEN parts[1]
    ELSE parts[1] \o sep \o JoinWith(Tail(parts), sep)

\* array.filter(Boolean) on strings: the empty string is dropped
RECURSIVE FilterNonEmpty(_)
FilterNonEmpty(parts) ==
    IF parts = <<>> THEN <<>>
    ELSE IF Head(parts) = <<>> THEN FilterNonEmpty(Tail(parts))
    ELSE <<Head(parts)>> \o FilterNonEmpty(Tail(parts))

\* the segments of an absolute path after path.resolve: empty and "."
\* segments vanish, ".." removes the segment before it
RECURSIVE ResolveParts(_, _)
ResolveParts(parts, acc) ==
    IF parts = <<>> THEN acc
    ELSE IF Head(parts) = <<>> \/ Head(parts) = <<".">>
         THEN ResolveParts(Tail(parts), acc)
    ELSE IF Head(parts) = <<".", ".">>
         THEN ResolveParts(Tail(parts),
                           IF acc = <<>> THEN acc ELSE SubSeq(acc, 1, Len(acc) - 1))
    ELSE ResolveParts(Tail(parts), Append(acc, Head(parts)))

AbsParts(p) == ResolveParts(SplitOn(p, PathSep), <<>>)

RECURSIVE CommonPrefixLen(_, _)
CommonPrefixLen(a, b) ==
    IF a = <<>> \/ b = <<>> \/ Head(a) # Head(b) THEN 0
    ELSE 1 + CommonPrefixLen(Tail(a), Tail(b))

\* path.relative(from, to) of two absolute paths
PathRelative(from, to) ==
    LET f == AbsParts(from)
        t == AbsParts(to)
        k == CommonPrefixLen(f, t)
        up == [i \in 1..(Len(f) - k) |-> <<".", ".">>]
    IN  JoinWith(up \o SubSeq(t, k + 1, Len(t)), <<PathSep>>)

\* path.isAbsolute(p)
IsAbsolute(p) == p # <<>> /\ p[1] = PathSep

\* p.startsWith('..')
StartsWithDotDot(p) == Len(p) >= 2 /\ p[1] = "." /\ p[2] = "."

\* path.basename(p) of a path without trailing separator
Basename(p) == LET parts == SplitOn(p, PathSep) IN parts[Len(parts)]

\* path.join(dir, name) of an absolute directory and an entry name
PathJoin(dir, name) == dir \o <<PathSep>> \o name

EndsWith(s, suffix) ==
    Len(s) >= Len(suffix) /\ SubSeq(s, Len(s) - Len(suffix) + 1, Len(s)) = suffix

DotBru == <<".", "b", "r", "u">>

CollectionBru == <<"c","o","l","l","e","c","t","i","o","n">> \o DotBru

\* s.replace(/\.bru$/i, '')
StripBruExt(s) ==
    IF Len(s) >= 4 /\ ToLowerCase(SubSeq(s, Len(s) - 3, Len(s))) = DotBru
    THEN SubSeq(s, 1, Len(s) - 4) ELSE s

\* A plausible slip: the empty relative path is let through.
EscapesRootNonEmpty(rel) == StartsWithDotDot(rel) \/ IsAbsolute(rel)

\* the containment test of naming.ts and discover.ts:
\* !rel || rel.startsWith('..') || path.isAbsolute(rel)
EscapesRoot(rel) == rel = <<>> \/ StartsWithDotDot(rel) \/ IsAbsolute(rel)

(***************************************************************************)
(* String.prototype.localeCompare, as the root collation orders the        *)
(* characters the model uses: punctuation before digits before letters,    *)
(* letters compared without case first, lower case before upper case on a  *)
(* tie.  A character outside the table sorts after the letters.            *)
(***************************************************************************)
CollationOrder ==
    <<"_", "-", "/", ".", "{", "}",
      "0","1","2","3","4","5","6","7","8","9">> \o LowerLetters

PrimaryWeight(c) ==
    LET l == LowerOfChar(c)[1]
    IN  IF l \in Range(CollationOrder)
        THEN CHOOSE i \in DOMAIN CollationOrder : CollationOrder[i] = l
        ELSE Len(CollationOrder) + 1

TertiaryWeight(c) == IF c \in Range(UpperLetters) THEN 1 ELSE 0

\* lexicographic comparison of two weight sequences: -1, 0 or 1
RECURSIVE CompareWeights(_, _)
CompareWeights(a, b) ==
    IF a = <<>> /\ b = <<>> THEN 0
    ELSE IF a = <<>> THEN -1
    ELSE IF b = <<>> THEN 1
    ELSE IF Head(a) < Head(b) THEN -1
    ELSE IF Head(a) > Head(b) THEN 1
    ELSE CompareWeights(Tail(a), Tail(b))

LocaleCompare(a, b) ==
    LET p == CompareWeights([i \in DOMAIN a |-> PrimaryWeight(a[i])],
                            [i \in DOMAIN b |-> PrimaryWeight(b[i])])
    IN  IF p # 0 THEN p
        ELSE CompareWeights([i \in DOMAIN a |-> TertiaryWeight(a[i])],
                            [i \in DOMAIN b |-> TertiaryWeight(b[i])])

\* Array.prototype.sort((x, y) => key(x).localeCompare(key(y))): a stable
\* sort of `items` by the strings keyOf[item]
RECURSIVE InsertSorted(_, _, _)
InsertSorted(sorted, item, keyOf) ==
    IF sorted = <<>> THEN <<item>>
    ELSE IF LocaleCompare(keyOf[item], keyOf[Head(sorted)]) < 0
         THEN <<item>> \o sorted
         ELSE <<Head(sorted)>> \o InsertSorted(Tail(sorted), item, keyOf)

RECURSIVE SortByKey(_, _)
SortByKey(items, keyOf) ==
    IF items = <<>> THEN <<>>
    ELSE InsertSorted(SortByKey(SubSeq(items, 1, Len(items) - 1), keyOf),
                      items[Len(items)], keyOf)

(***************************************************************************)
(* The file system as naming.ts sees it: the text of every file of the     *)
(* model, by absolute path.  A path outside the table cannot be read.      *)
(***************************************************************************)
RootAbs == <<"/", "r">>

FileA1 == RootAbs \o <<"/", "a", "/", "x", "-", "1">> \o DotBru      \* /r/a/x-1.bru
FileA2 == RootAbs \o <<"/", "a", "/", "x", "_", "1">> \o DotBru      \* /r/a/x_1.bru
FileB  == RootAbs \o <<"/", "B">> \o DotBru                          \* /r/B.bru
FileColl == RootAbs \o <<"/", "a", "/", "C">> \o Tail(CollectionBru) \* /r/a/Collection.bru
FileOut == <<"/", "o", "/", "e">> \o DotBru                          \* /o/e.bru
FileDash == RootAbs \o <<"/", "-", "-">> \o DotBru                   \* /r/--.bru
FileCollUpper == RootAbs \o <<"/", "C","O","L","L","E","C","T","I","O","N",".","B","R","U">>
                                                                     \* /r/COLLECTION.BRU
FileDot == RootAbs \o <<"/">> \o DotBru                             \* /r/.bru
FileADot == RootAbs \o <<"/", "a", "/">> \o DotBru                  \* /r/a/.bru
FileCollOut == <<"/", "o", "/">> \o CollectionBru                    \* /o/collection.bru

TextQ  == <<"{", "{", "q", "}", "}">>                                \* {{q}}
TextTQ == <<"{", "{", " ", "t", " ", "}", "}", "\n", "{", "{", "q", "}", "}",
            "{", "{", "t", "}", "}">>                                \* {{ t }}\n{{q}}{{t}}
TextPlain == <<"{", "q", "}", "{", "{", "}", "}">>                   \* {q}{{}}

TextDocs == <<"d", "o", "c", "s", " ", "{", "\n", " ", "h", "i", "\n", "}", "\n">>
                                                                     \* docs {\n hi\n}\n

FileText ==
    (FileA1 :> TextQ) @@ (FileA2 :> TextDocs) @@ (FileB :> TextTQ)
    @@ (FileColl :> TextQ) @@ (FileOut :> TextQ) @@ (FileDash :> TextPlain)
    @@ (FileDot :> TextPlain) @@ (FileADot :> TextPlain)

Readable(fileAbs) == fileAbs \in DOMAIN FileText

(***************************************************************************)
(* naming.ts                                                               *)
(***************************************************************************)
\* an optional value: absent, or present
None == <<>>

Some(x) == <<x>>

Ok(v) == [ok |-> TRUE, value |-> v]

\* new AppError(code, message); `what` tells apart the messages of one code
Err(code, what) == [ok |-> FALSE, code |-> code, what |-> what]

\* /^[a-z0-9_]+$/
ToolNamePattern(s) ==
    s # <<>> /\ \A i \in 1..Len(s) : s[i] \in LowerAlnum \cup {"_"}

validateToolName(input) ==
    IF input = <<>> THEN Err("E_ARGS", "empty tool name")
    ELSE IF ~ToolNamePattern(input) THEN Err("E_ARGS", "tool name pattern")
    ELSE Ok(input)

sanitizePrefix(input) ==
    LET value == sanitizeSegment(input)
    IN  IF value = <<>> THEN Err("E_ARGS", "empty prefix") ELSE Ok(value)

\* prefixArg is <<>> when --prefix is absent (an empty string is falsy too)
derivePrefix(prefixArg, collectionRootAbs) ==
    IF prefixArg # <<>> THEN sanitizePrefix(prefixArg)
    ELSE sanitizePrefix(Basename(collectionRootAbs))

\* A plausible variant: a path that leaves no segment for the file itself
\* is refused.
buildToolNameWithStem(prefix, relativeBruPath) ==
    LET normalized == StripBruExt(JoinWith(SplitOn(relativeBruPath, PathSep), <<"/">>))
        parts == FilterNonEmpty(SplitOn(normalized, "/"))
        segments == [i \in DOMAIN parts |-> sanitizeSegment(parts[i])]
    IN  IF \/ \E i \in DOMAIN segments : segments[i] = <<>>
           \/ normalized = <<>>
           \/ normalized[Len(normalized)] = "/"
        THEN Err("E_NAMING", "invalid path segment")
        ELSE validateToolName(prefix \o <<"_">> \o JoinWith(segments, <<"_">>))

buildToolNameFromRelativePath(prefix, relativeBruPath) ==
    LET normalized == StripBruExt(JoinWith(SplitOn(relativeBruPath, PathSep), <<"/">>))
        parts == FilterNonEmpty(SplitOn(normalized, "/"))
        segments == [i \in DOMAIN parts |-> sanitizeSegment(parts[i])]
    IN  IF \E i \in DOMAIN segments : segments[i] = <<>>
        THEN Err("E_NAMING", "invalid path segment")
        ELSE validateToolName(prefix \o <<"_">> \o JoinWith(segments, <<"_">>))

\* the character classes of /\{\{\s*([a-zA-Z0-9_.-]+)\s*\}\}/g
TemplateNameChars ==
    Range(LowerLetters) \cup Range(UpperLetters) \cup Digits \cup {"_", ".", "-"}

WhiteSpace == {" ", "\n", "\t", "\r"}

RECURSIVE SkipWhile(_, _, _)
SkipWhile(s, i, class) ==
    IF i <= Len(s) /\ s[i] \in class THEN SkipWhile(s, i + 1, class) ELSE i

\* one attempt of the regular expression at position i: the name matched and
\* the position after the match, or no match
TemplateMatchAt(s, i) ==
    IF ~(i + 1 <= Len(s) /\ s[i] = "{" /\ s[i + 1] = "{")
    THEN [found |-> FALSE]
    ELSE LET n0 == SkipWhile(s, i + 2, WhiteSpace)
             n1 == SkipWhile(s, n0, TemplateNameChars)
             c0 == SkipWhile(s, n1, WhiteSpace)
         IN  IF n1 > n0 /\ c0 + 1 <= Len(s) /\ s[c0] = "}" /\ s[c0 + 1] = "}"
             THEN [found |-> TRUE, name |-> SubSeq(s, n0, n1 - 1), next |-> c0 + 2]
             ELSE [found |-> FALSE]

\* the names in order of first occurrence (the insertion order of the Set)
RECURSIVE TemplateScan(_, _, _)
TemplateScan(s, i, found) ==
    IF i > Len(s) THEN found
    ELSE LET m == TemplateMatchAt(s, i)
         IN  IF m.found
             THEN TemplateScan(s, m.next,
                               IF m.name \in Range(found) THEN found
                               ELSE Append(found, m.name))
             ELSE TemplateScan(s, i + 1, found)

\* extractTemplateVariables, given the text read from the file
TemplateVariablesOf(content) ==
    LET found == TemplateScan(content, 1, <<>>)
    IN  SortByKey(found, [n \in Range(found) |-> n])

\* s.trimEnd()
RECURSIVE TrimEnd(_)
TrimEnd(s) ==
    IF s # <<>> /\ s[Len(s)] \in WhiteSpace
    THEN TrimEnd(SubSeq(s, 1, Len(s) - 1)) ELSE s

\* s.trim()
Trim(s) == TrimEnd(SubSeq(s, SkipWhile(s, 1, WhiteSpace), Len(s)))

\* content.split(/\r?\n/)
SplitLines(content) ==
    LET parts == SplitOn(content, "\n")
    IN  [i \in DOMAIN parts |->
            IF i < Len(parts) /\ parts[i] # <<>> /\ parts[i][Len(parts[i])] = "\r"
            THEN SubSeq(parts[i], 1, Len(parts[i]) - 1)
            ELSE parts[i]]

DocsWord == <<"d", "o", "c", "s">>

\* /^\s*docs\s*\{/ on a line: the position after the brace, or 0
DocsOpenEnd(line) ==
    LET p0 == SkipWhile(line, 1, WhiteSpace)
        p1 == SkipWhile(line, p0 + 4, WhiteSpace)
    IN  IF p0 + 3 <= Len(line) /\ SubSeq(line, p0, p0 + 3) = DocsWord
           /\ p1 <= Len(line) /\ line[p1] = "{"
        THEN p1 + 1 ELSE 0

\* const out = contentLines.join('\n').trim();
\* return out.length > 0 ? out : undefined
DocsFinish(contentLines) ==
    LET out == Trim(JoinWith(contentLines, <<"\n">>))
    IN  IF out = <<>> THEN None ELSE Some(out)

\* the inner loop of extractDocsFromBruContent: the lines up to one that
\* holds a closing brace alone, or to the end of the text
RECURSIVE DocsBody(_, _, _)
DocsBody(lines, i, contentLines) ==
    IF i > Len(lines) THEN DocsFinish(contentLines)
    ELSE IF Trim(lines[i]) = <<"}">> THEN DocsFinish(contentLines)
    ELSE DocsBody(lines, i + 1, Append(contentLines, lines[i]))

\* A plausible variant: an opening line that closes at once is an empty
\* block.
RECURSIVE DocsScanClosingEmpty(_, _)
DocsScanClosingEmpty(lines, i) ==
    IF i > Len(lines) THEN None
    ELSE IF DocsOpenEnd(lines[i]) = 0 THEN DocsScanClosingEmpty(lines, i + 1)
    ELSE LET line == lines[i]
             restOfFirstLine ==
                 TrimEnd(SubSeq(line, SkipWhile(line, DocsOpenEnd(line), WhiteSpace),
                                Len(line)))
             closes == restOfFirstLine # <<>>
                       /\ restOfFirstLine[Len(restOfFirstLine)] = "}"
             upToClose ==
                 Trim(IF closes
                      THEN TrimEnd(SubSeq(restOfFirstLine, 1,
                                          Len(restOfFirstLine) - 1))
                      ELSE restOfFirstLine)
             first == IF upToClose # <<>> THEN <<upToClose>> ELSE <<>>
         IN  IF closes THEN DocsFinish(first)
             ELSE DocsBody(lines, i + 1, first)

\* the outer loop of extractDocsFromBruContent from line i on
RECURSIVE DocsScan(_, _)
DocsScan(lines, i) ==
    IF i > Len(lines) THEN None
    ELSE IF DocsOpenEnd(lines[i]) = 0 THEN DocsScan(lines, i + 1)
    ELSE LET line == lines[i]
             restOfFirstLine ==
                 TrimEnd(SubSeq(line, SkipWhile(line, DocsOpenEnd(line), WhiteSpace),
                                Len(line)))
             inline == restOfFirstLine # <<>> /\ restOfFirstLine # <<"}">>
             closes == restOfFirstLine # <<>>
                       /\ restOfFirstLine[Len(restOfFirstLine)] = "}"
             upToClose ==
                 Trim(IF closes
                      THEN TrimEnd(SubSeq(restOfFirstLine, 1,
                                          Len(restOfFirstLine) - 1))
                      ELSE restOfFirstLine)
             first == IF inline /\ upToClose # <<>> THEN <<upToClose>> ELSE <<>>
         IN  IF inline /\ closes THEN DocsFinish(first)
             ELSE DocsBody(lines, i + 1, first)

\* extractDocsFromBruContent: the text of the first docs block, if any
extractDocsFromBruContent(content) == DocsScan(SplitLines(content), 1)

\* relativePath.replace(/\.bru$/i, '').split(path.sep).join('/')
RequestPathNoExt(relativePath) ==
    JoinWith(SplitOn(StripBruExt(relativePath), PathSep), <<"/">>)

ToolNames(map) == { map[i].toolName : i \in DOMAIN map }

\* map.set(toolName, target): a new key is appended in insertion order, an
\* existing key keeps its place and takes the new value
MapSet(map, target) ==
    IF target.toolName \in ToolNames(map)
    THEN [i \in DOMAIN map |->
             IF map[i].toolName = target.toolName THEN target ELSE map[i]]
    ELSE Append(map, target)

\* new Map([...map.entries()].sort(([a], [b]) => a.localeCompare(b)))
SortedByName(map) ==
    LET idx == [i \in DOMAIN map |-> i]
        sorted == SortByKey(idx, [i \in DOMAIN map |-> map[i].toolName])
    IN  [k \in DOMAIN sorted |-> map[sorted[k]]]

\* A plausible slip: the later file silently replaces the earlier one.
OnCollisionOverwrite(map, target, reads) ==
    [done |-> FALSE, map |-> MapSet(map, target), reads |-> reads]

\* what map.has(toolName) makes of a name already registered: the collision
\* is an error
OnCollision(map, target, reads) ==
    [done |-> TRUE, result |-> Err("E_NAMING", "collision"), reads |-> reads]

\* A plausible slip: the reserved name is compared as it is spelled.
IsReservedNameExact(relativePath) == Basename(relativePath) = CollectionBru

\* path.basename(relativePath).toLowerCase() === 'collection.bru'
IsReservedName(relativePath) == ToLowerCase(Basename(relativePath)) = CollectionBru

\* One iteration of the loop of buildCollectionToolMap, for bruFileAbs, on
\* the map built so far; `reads` lists the files whose text has been read.
CollectionLoopBody(map, reads, bruFileAbs, collectionRootAbs, prefix) ==
    LET relativePath == PathRelative(collectionRootAbs, bruFileAbs)
        named == buildToolNameFromRelativePath(prefix, relativePath)
        content == FileText[bruFileAbs]
        templateVars == TemplateVariablesOf(content)
        target == [toolName |-> named.value,
                   bruFileAbs |-> bruFileAbs,
                   collectionRootAbs |-> collectionRootAbs,
                   requestPathNoExt |-> RequestPathNoExt(relativePath),
                   requiresEnv |-> Len(templateVars) > 0,
                   templateVars |-> templateVars,
                   docs |-> extractDocsFromBruContent(content)]
    IN  IF EscapesRoot(relativePath)
        THEN [done |-> TRUE, result |-> Err("E_DISCOVERY", "path traversal"),
              reads |-> reads]
        ELSE IF IsReservedName(relativePath)
        THEN [done |-> FALSE, map |-> map, reads |-> reads]
        ELSE IF ~named.ok
        THEN [done |-> TRUE, result |-> named, reads |-> reads]
        ELSE IF named.value \in ToolNames(map)
        THEN OnCollision(map, target, reads)
        ELSE IF ~Readable(bruFileAbs)
        THEN [done |-> TRUE, result |-> Err("ENOENT", "readFile failed"),
              reads |-> Append(reads, bruFileAbs)]
        ELSE [done |-> FALSE, map |-> MapSet(map, target),
              reads |-> Append(reads, bruFileAbs)]

RECURSIVE CollectionLoop(_, _, _, _, _)
CollectionLoop(map, reads, files, collectionRootAbs, prefix) ==
    IF files = <<>>
    THEN [ok |-> TRUE, value |-> SortedByName(map), reads |-> reads]
    ELSE LET step == CollectionLoopBody(map, reads, Head(files),
                                        collectionRootAbs, prefix)
         IN  IF step.done
             THEN [ok |-> FALSE, code |-> step.result.code,
                   what |-> step.result.what, reads |-> step.reads]
             ELSE CollectionLoop(step.map, step.reads, Tail(files),
                                 collectionRootAbs, prefix)

\* the value the promise settles with: a sorted registry, or an error
buildCollectionToolMap(bruFilesAbs, collectionRootAbs, prefix) ==
    CollectionLoop(<<>>, <<>>, bruFilesAbs, collectionRootAbs, prefix)

(***************************************************************************)
(* discover.ts.  A file tree is a set of directory entries; an entry has   *)
(* the absolute path of its directory, its name, the type its Dirent       *)
(* reports ("file", "dir", "link" for a symbolic link, "other" for a       *)
(* socket, FIFO or device), for a link the type of what it points to, and  *)
(* the canonical path fs.realpath returns for it.                          *)
(***************************************************************************)
Environments == <<"e","n","v","i","r","o","n","m","e","n","t","s">>

Entry(parent, name, kind, to, real) ==
    [parent |-> parent, name |-> name, kind |-> kind, to |-> to, real |-> real]

\* an entry that is what it seems: its canonical path is its path
Plain(parent, name, kind) ==
    Entry(parent, name, kind, kind, PathJoin(parent, name))

EntryAbs(e) == PathJoin(e.parent, e.name)

\* A plausible slip: the type is taken from fs.stat, which follows a
\* symbolic link and reports the type of what it points to.
StatType(e) == e.to

\* the type a Dirent of fs.readdir(dir, { withFileTypes: true }) reports: that
\* of the entry itself, never that of a link's target
DirentType(e) == e.kind

IsSymbolicLink(e) == DirentType(e) = "link"

IsDirectory(e) == DirentType(e) = "dir"

IsFile(e) == DirentType(e) = "file"

\* fs.readdir(currentAbs): the entries of the directory, in one of the two
\* orders the model lets the operating system return them in
Readdir(tree, currentAbs, order) ==
    LET here == { e \in tree : e.parent = currentAbs }
        RECURSIVE Listed(_)
        Listed(left) ==
            IF left = {} THEN <<>>
            ELSE LET first == CHOOSE e \in left : \A o \in left :
                                  IF order = "asc"
                                  THEN LocaleCompare(e.name, o.name) <= 0
                                  ELSE LocaleCompare(e.name, o.name) >= 0
                 IN  <<first>> \o Listed(left \ {first})
    IN  Listed(here)

\* walk(currentAbs), with the results pushed so far: the results after it,
\* or the error it threw
RECURSIVE WalkEntries(_, _, _, _, _, _)
WalkEntries(tree, rootRealAbs, currentAbs, entries, results, order) ==
    IF entries = <<>> THEN [ok |-> TRUE, results |-> results]
    ELSE LET entry == Head(entries)
             rest == Tail(entries)
             entryAbs == PathJoin(currentAbs, entry.name)
             rel == PathRelative(rootRealAbs, entry.real)
             skip == WalkEntries(tree, rootRealAbs, currentAbs, rest, results, order)
         IN  IF IsSymbolicLink(entry) THEN skip
             ELSE IF IsDirectory(entry)
             THEN IF ToLowerCase(entry.name) = Environments THEN skip
                  ELSE LET sub == WalkEntries(tree, rootRealAbs, entryAbs,
                                              Readdir(tree, entryAbs, order),
                                              results, order)
                       IN  IF ~sub.ok THEN sub
                           ELSE WalkEntries(tree, rootRealAbs, currentAbs, rest,
                                            sub.results, order)
             ELSE IF ~IsFile(entry) THEN skip
             ELSE IF ~EndsWith(entry.name, DotBru) THEN skip
             ELSE IF EscapesRoot(rel)
             THEN Err("E_DISCOVERY", "path traversal")
             ELSE WalkEntries(tree, rootRealAbs, currentAbs, rest,
                              Append(results, entry.real), order)

\* path.relative(rootRealAbs, a).split(path.sep).join('/')
RelPosix(rootRealAbs, a) ==
    JoinWith(SplitOn(PathRelative(rootRealAbs, a), PathSep), <<"/">>)

\* A plausible slip: the final sort is left out.
SortResultsOmitted(results, rootRealAbs) == results

\* results.sort((a, b) => relA.localeCompare(relB))
SortResults(results, rootRealAbs) ==
    SortByKey(results, [a \in Range(results) |-> RelPosix(rootRealAbs, a)])

\* discoverBruFiles(rootAbs) for a root that is its own canonical path
discoverBruFiles(tree, rootAbs, order) ==
    LET walked == WalkEntries(tree, rootAbs, rootAbs,
                              Readdir(tree, rootAbs, order), <<>>, order)
    IN  IF ~walked.ok THEN walked
        ELSE Ok(SortResults(walked.results, rootAbs))

(***************************************************************************)
(* JavaScript values, as far as the call arguments and the report need     *)
(* them.  An object is the sequence of its own enumerable properties in    *)
(* insertion order.  None and Some stand for an optional value.            *)
(***************************************************************************)
Undefined == [t |-> "undefined"]

Null == [t |-> "null"]

Str(s) == [t |-> "string", s |-> s]

Num(n) == [t |-> "number", n |-> n]

Arr(items) == [t |-> "array", items |-> items]

Prop(k, v) == [k |-> k, v |-> v]

Obj(props) == [t |-> "object", props |-> props]

\* value == null
IsNullish(v) == v.t \in {"undefined", "null"}

\* obj[key] of an object
Get(obj, key) ==
    IF \E i \in DOMAIN obj.props : obj.props[i].k = key
    THEN obj.props[CHOOSE i \in DOMAIN obj.props : obj.props[i].k = key].v
    ELSE Undefined

VarsKey == <<"v", "a", "r", "s">>

(***************************************************************************)
(* mcp.ts                                                                  *)
(***************************************************************************)
ProtoKey == <<"_", "_", "p", "r", "o", "t", "o", "_", "_">>

\* out[k] = v on an object literal, for a string v: a new key is added last,
\* an existing one keeps its place, and the key __proto__ reaches the setter
\* of Object.prototype, which ignores a value that is not an object
SetOwn(out, k, v) ==
    IF k = ProtoKey THEN out
    ELSE IF \E i \in DOMAIN out : out[i].k = k
    THEN [i \in DOMAIN out |-> IF out[i].k = k THEN Prop(k, v) ELSE out[i]]
    ELSE Append(out, Prop(k, v))

\* for (const [key, value] of Object.entries(obj.vars)) vars[key] = value
RECURSIVE CopyEntries(_, _)
CopyEntries(entries, out) ==
    IF entries = <<>> THEN out
    ELSE CopyEntries(Tail(entries),
                     SetOwn(out, Head(entries).k, Head(entries).v.s))

\* A plausible slip: the keys of the payload other than vars are ignored.
validateVarsAnyKey(input) ==
    IF IsNullish(input) THEN Ok(None)
    ELSE IF input.t # "object" THEN Err("E_INPUT", "not an object")
    ELSE IF IsNullish(Get(input, VarsKey)) THEN Ok(None)
    ELSE IF Get(input, VarsKey).t # "object"
    THEN Err("E_INPUT", "vars not an object")
    ELSE LET entries == Get(input, VarsKey).props
         IN  IF \E i \in DOMAIN entries : entries[i].v.t # "string"
             THEN Err("E_INPUT", "value not a string")
             ELSE Ok(Some(CopyEntries(entries, <<>>)))

\* validateVars: None for undefined, or the flat string map as a sequence
\* of key/value pairs
validateVars(input) ==
    IF IsNullish(input) THEN Ok(None)
    ELSE IF input.t # "object" THEN Err("E_INPUT", "not an object")
    ELSE IF \E i \in DOMAIN input.props : input.props[i].k # VarsKey
    THEN Err("E_INPUT", "unsupported key")
    ELSE IF IsNullish(Get(input, VarsKey)) THEN Ok(None)
    ELSE IF Get(input, VarsKey).t # "object"
    THEN Err("E_INPUT", "vars not an object")
    ELSE LET entries == Get(input, VarsKey).props
         IN  IF \E i \in DOMAIN entries : entries[i].v.t # "string"
             THEN Err("E_INPUT", "value not a string")
             ELSE Ok(Some(CopyEntries(entries, <<>>)))

\* tools.get(name)
Lookup(tools, name) ==
    IF name \in ToolNames(tools)
    THEN Some(tools[CHOOSE i \in DOMAIN tools : tools[i].toolName = name])
    ELSE None

resolveToolTarget(tools, name) ==
    IF Lookup(tools, name) = None THEN Err("E_TOOL_NOT_FOUND", "unknown tool")
    ELSE Ok(Lookup(tools, name)[1])

ExecutePrefix == <<"E","x","e","c","u","t","e"," ","B","r","u","n","o"," ",
                   "r","e","q","u","e","s","t",":"," ">>

\* A plausible variant: the docs of the request, when it has some, are the
\* description.
ListedToolsWithDocs(tools) ==
    [i \in DOMAIN tools |->
        [name |-> tools[i].toolName,
         description |-> IF tools[i].docs # None THEN tools[i].docs[1]
                         ELSE ExecutePrefix \o tools[i].requestPathNoExt]]

\* the tools of a list-tools response
ListedTools(tools) ==
    [i \in DOMAIN tools |->
        [name |-> tools[i].toolName,
         description |-> ExecutePrefix \o tools[i].requestPathNoExt]]

(***************************************************************************)
(* runner.ts, up to the spawn                                              *)
(***************************************************************************)
RECURSIVE ToUpperCase(_)
ToUpperCase(s) ==
    IF s = <<>> THEN <<>>
    ELSE (IF Head(s) \in Range(LowerLetters)
          THEN <<UpperLetters[CHOOSE i \in DOMAIN LowerLetters :
                                  LowerLetters[i] = Head(s)]>>
          ELSE <<Head(s)>>) \o ToUpperCase(Tail(s))

sanitizeEnvVarName(input) ==
    CollapseUnderscores(
        StripUnderscores(
            ReplaceRunsOutside(ToUpperCase(input), UpperAlnum, <<"_">>)))

McpVarPrefix == <<"M", "C", "P", "_", "V", "A", "R", "_">>

ArgEnvVar == <<"-", "-", "e", "n", "v", "-", "v", "a", "r">>

ArgEnv == <<"-", "-", "e", "n", "v">>

ArgRun == <<"r", "u", "n">>

ArgOutput == <<"-", "-", "o", "u", "t", "p", "u", "t">>

ArgFormat == <<"-", "-", "f", "o", "r", "m", "a", "t">>

ArgJson == <<"j", "s", "o", "n">>

\* A plausible slip: the key that normalizes to nothing is let through.
RECURSIVE VarsLoopAnyName(_, _, _)
VarsLoopAnyName(entries, envMap, envVarArgs) ==
    IF entries = <<>> THEN Ok([envMap |-> envMap, envVarArgs |-> envVarArgs])
    ELSE LET key == Head(entries).k
             value == Head(entries).v
             envKey == McpVarPrefix \o sanitizeEnvVarName(key)
         IN  IF key = <<>> THEN Err("E_VARS", "empty key")
             ELSE IF "=" \in Range(key) THEN Err("E_VARS", "key includes =")
             ELSE IF \E i \in DOMAIN envMap : envMap[i].k = envKey
             THEN Err("E_VARS", "key collision")
             ELSE VarsLoopAnyName(Tail(entries),
                                  Append(envMap, Prop(envKey, value)),
                                  envVarArgs \o <<ArgEnvVar, key \o <<"=">> \o value>>)

\* the loop of buildVarsPassThrough over Object.entries(vars)
RECURSIVE VarsLoop(_, _, _)
VarsLoop(entries, envMap, envVarArgs) ==
    IF entries = <<>> THEN Ok([envMap |-> envMap, envVarArgs |-> envVarArgs])
    ELSE LET key == Head(entries).k
             value == Head(entries).v
             normalized == sanitizeEnvVarName(key)
             envKey == McpVarPrefix \o normalized
         IN  IF key = <<>> THEN Err("E_VARS", "empty key")
             ELSE IF "=" \in Range(key) THEN Err("E_VARS", "key includes =")
             ELSE IF normalized = <<>> THEN Err("E_VARS", "invalid key")
             ELSE IF \E i \in DOMAIN envMap : envMap[i].k = envKey
             THEN Err("E_VARS", "key collision")
             ELSE VarsLoop(Tail(entries),
                           Append(envMap, Prop(envKey, value)),
                           envVarArgs \o <<ArgEnvVar, key \o <<"=">> \o value>>)

\* vars is None (undefined) or Some(map)
buildVarsPassThrough(callVars) ==
    IF callVars = None \/ callVars[1] = <<>>
    THEN Ok([envMap |-> <<>>, envVarArgs |-> <<>>])
    ELSE VarsLoop(callVars[1], <<>>, <<>>)

\* Object.keys(options.vars ?? {})
ProvidedVars(callVars) ==
    IF callVars = None THEN {} ELSE { callVars[1][i].k : i \in DOMAIN callVars[1] }

\* target.templateVars.filter((name) => !providedVars.has(name))
RECURSIVE MissingVars(_, _)
MissingVars(templateVars, provided) ==
    IF templateVars = <<>> THEN <<>>
    ELSE (IF Head(templateVars) \in provided THEN <<>> ELSE <<Head(templateVars)>>)
         \o MissingVars(Tail(templateVars), provided)

\* A plausible slip: the vars of the call are not looked at.
EnvCheckIgnoringVars(target, envName, callVars) ==
    IF target.requiresEnv /\ (envName = None \/ envName = Some(<<>>))
    THEN [ok |-> FALSE, code |-> "E_ENV_REQUIRED", what |-> "missing variables",
          missing |-> target.templateVars]
    ELSE Ok(TRUE)

\* A plausible slip: the environment test is left to the Bruno CLI.
EnvCheckOmitted(target, envName, callVars) == Ok(TRUE)

\* lines 333-342 of runBrunoTool: envName is None or Some(name); an empty
\* name is falsy
EnvCheck(target, envName, callVars) ==
    IF target.requiresEnv /\ (envName = None \/ envName = Some(<<>>))
       /\ MissingVars(target.templateVars, ProvidedVars(callVars)) # <<>>
    THEN [ok |-> FALSE, code |-> "E_ENV_REQUIRED", what |-> "missing variables",
          missing |-> MissingVars(target.templateVars, ProvidedVars(callVars))]
    ELSE Ok(TRUE)

\* the argument list of the child; reportPath is the call's own file
SpawnArgs(target, envName, envVarArgs, reportPath) ==
    <<ArgRun, target.requestPathNoExt \o DotBru>>
    \o (IF envName = None \/ envName = Some(<<>>) THEN <<>>
        ELSE <<ArgEnv, envName[1]>>)
    \o envVarArgs
    \o <<ArgOutput, reportPath, ArgFormat, ArgJson>>

(***************************************************************************)
(* runner.ts, the report                                                   *)
(***************************************************************************)
Bool(b) == [t |-> "boolean", b |-> b]

\* v[key] of any value: only an object of the model has properties
Field(v, key) == IF v.t = "object" THEN Get(v, key) ELSE Undefined

\* a ?? b
Coalesce(a, b) == IF IsNullish(a) THEN b ELSE a

DigitSeq == <<"0", "1", "2", "3", "4", "5", "6", "7", "8", "9">>

\* the decimal digits of a natural number
RECURSIVE NumText(_)
NumText(n) ==
    IF n < 10 THEN <<DigitSeq[n + 1]>>
    ELSE NumText(n \div 10) \o <<DigitSeq[(n % 10) + 1]>>

\* the number a string of decimal digits denotes
RECURSIVE DigitsValue(_, _)
DigitsValue(s, acc) ==
    IF s = <<>> THEN acc
    ELSE DigitsValue(Tail(s),
                     10 * acc + (CHOOSE d \in 0..9 : DigitSeq[d + 1] = Head(s)))

Finite(n) == [finite |-> TRUE, n |-> n]

NaN == [finite |-> FALSE]

\* Number(v)
ToNumber(v) ==
    IF v.t = "number" THEN Finite(v.n)
    ELSE IF v.t = "null" THEN Finite(0)
    ELSE IF v.t = "boolean" THEN Finite(IF v.b THEN 1 ELSE 0)
    ELSE IF v.t = "string"
    THEN IF \A i \in DOMAIN v.s : v.s[i] \in Digits
         THEN Finite(DigitsValue(v.s, 0)) ELSE NaN
    ELSE IF v.t = "array" /\ v.items = <<>> THEN Finite(0)
    ELSE IF v.t = "array" /\ Len(v.items) = 1 /\ v.items[1].t = "number"
    THEN Finite(v.items[1].n)
    ELSE NaN

TrueText == <<"t", "r", "u", "e">>

FalseText == <<"f", "a", "l", "s", "e">>

NullText == <<"n", "u", "l", "l">>

ObjectText == <<"[", "o", "b", "j", "e", "c", "t", " ", "O", "b", "j", "e", "c", "t", "]">>

\* String(v) of a value that is not null or undefined
StringOf(v) ==
    IF v.t = "string" THEN v.s
    ELSE IF v.t = "number" THEN NumText(v.n)
    ELSE IF v.t = "boolean" THEN (IF v.b THEN TrueText ELSE FalseText)
    ELSE IF v.t = "array" /\ v.items = <<>> THEN <<>>
    ELSE ObjectText

Spaces(n) == [i \in 1..n |-> " "]

\* JSON.stringify(v, null, 2) written at the given indentation
RECURSIVE Stringify(_, _)
Stringify(v, indent) ==
    LET RECURSIVE Members(_)
        Members(i) ==
            LET n == IF v.t = "array" THEN Len(v.items) ELSE Len(v.props)
                member == IF v.t = "array"
                          THEN Stringify(v.items[i], indent + 2)
                          ELSE <<"\"">> \o v.props[i].k \o <<"\"", ":", " ">>
                               \o Stringify(v.props[i].v, indent + 2)
            IN  IF i > n THEN <<>>
                ELSE Spaces(indent + 2) \o member
                     \o (IF i < n THEN <<",">> ELSE <<>>) \o <<"\n">>
                     \o Members(i + 1)
    IN  IF v.t = "string" THEN <<"\"">> \o v.s \o <<"\"">>
        ELSE IF v.t = "number" THEN NumText(v.n)
        ELSE IF v.t = "boolean" THEN (IF v.b THEN TrueText ELSE FalseText)
        ELSE IF v.t \in {"null", "undefined"} THEN NullText
        ELSE IF v.t = "array"
        THEN IF v.items = <<>> THEN <<"[", "]">>
             ELSE <<"[", "\n">> \o Members(1) \o Spaces(indent) \o <<"]">>
        ELSE IF v.props = <<>> THEN <<"{", "}">>
             ELSE <<"{", "\n">> \o Members(1) \o Spaces(indent) \o <<"}">>

NameKey == <<"n", "a", "m", "e">>

ValueKey == <<"v", "a", "l", "u", "e">>

\* out[k] = v on the headers built so far
SetHeader(out, k, v) == SetOwn(out, k, Str(v))

\* value == null ? '' : String(value)
TextOrEmpty(v) == IF IsNullish(v) THEN <<>> ELSE StringOf(v)

RECURSIVE HeadersOfItems(_, _)
HeadersOfItems(items, out) ==
    IF items = <<>> THEN out
    ELSE LET item == Head(items)
         IN  IF item.t \notin {"object", "array"}
                \/ Field(item, NameKey).t # "string"
             THEN HeadersOfItems(Tail(items), out)
             ELSE HeadersOfItems(Tail(items),
                      SetHeader(out, Field(item, NameKey).s,
                                TextOrEmpty(Field(item, ValueKey))))

RECURSIVE HeadersOfProps(_, _)
HeadersOfProps(props, out) ==
    IF props = <<>> THEN out
    ELSE HeadersOfProps(Tail(props),
                        SetHeader(out, Head(props).k, TextOrEmpty(Head(props).v)))

toHeaders(input) ==
    IF input.t = "array" THEN Obj(HeadersOfItems(input.items, <<>>))
    ELSE IF input.t = "object" THEN Obj(HeadersOfProps(input.props, <<>>))
    ELSE Obj(<<>>)

toBodyText(input) ==
    IF input.t = "string" THEN input.s
    ELSE IF IsNullish(input) THEN <<>>
    ELSE IF input.t \in {"number", "boolean"} THEN StringOf(input)
    ELSE Stringify(input, 0)

ResultsKey == <<"r", "e", "s", "u", "l", "t", "s">>

ResponseKey == <<"r", "e", "s", "p", "o", "n", "s", "e">>

StatusCodeKey == <<"s", "t", "a", "t", "u", "s", "C", "o", "d", "e">>

StatusKey == <<"s", "t", "a", "t", "u", "s">>

HeadersKey == <<"h", "e", "a", "d", "e", "r", "s">>

BodyKey == <<"b", "o", "d", "y">>

DataKey == <<"d", "a", "t", "a">>

\* typeof v === 'object' of a truthy value
IsObjectLike(v) == v.t \in {"object", "array"}

\* A plausible variant: the status falls back like the headers and the
\* body, from the response to the first result to the root.
StatusCandidateThreeLevel(response, firstObject, r) ==
    LET responseOr(key) == IF response.t = "undefined" THEN Undefined
                           ELSE Field(response, key)
    IN  Coalesce(Coalesce(Coalesce(Coalesce(Coalesce(
            responseOr(StatusCodeKey), responseOr(StatusKey)),
            Field(firstObject, StatusCodeKey)), Field(firstObject, StatusKey)),
            Field(r, StatusCodeKey)), Field(r, StatusKey))

\* statusSource.statusCode ?? statusSource.status ?? r.statusCode ?? r.status
\* with statusSource = response ?? firstObject
StatusCandidate(response, firstObject, r) ==
    LET statusSource == Coalesce(response, firstObject)
    IN  Coalesce(Coalesce(Coalesce(Field(statusSource, StatusCodeKey),
                                   Field(statusSource, StatusKey)),
                          Field(r, StatusCodeKey)),
                 Field(r, StatusKey))

\* A plausible variant: only a number is a status.
StatusNumberStrict(statusCandidate) ==
    IF statusCandidate.t = "number" THEN Finite(statusCandidate.n) ELSE NaN

\* typeof statusCandidate === 'number' ? statusCandidate
\*                                      : Number(statusCandidate)
StatusNumber(statusCandidate) ==
    IF statusCandidate.t = "number" THEN Finite(statusCandidate.n)
    ELSE IF statusCandidate.t = "undefined" THEN NaN
    ELSE ToNumber(statusCandidate)

extractReportView(report) ==
    LET reportRoot == IF report.t = "array"
                      THEN (IF report.items = <<>> THEN Undefined ELSE report.items[1])
                      ELSE report
        r == Coalesce(reportRoot, Obj(<<>>))
        nestedResults == IF Field(r, ResultsKey).t = "array"
                         THEN Field(r, ResultsKey).items ELSE <<>>
        firstResult == IF nestedResults # <<>> THEN nestedResults[1] ELSE Undefined
        firstObject == IF IsObjectLike(firstResult) THEN firstResult ELSE Obj(<<>>)
        response == IF IsObjectLike(Field(firstObject, ResponseKey))
                    THEN Field(firstObject, ResponseKey) ELSE Undefined
        statusCandidate == StatusCandidate(response, firstObject, r)
        statusCode == StatusNumber(statusCandidate)
        responseOr(key) == IF response.t = "undefined" THEN Undefined
                           ELSE Field(response, key)
        headers == toHeaders(Coalesce(Coalesce(responseOr(HeadersKey),
                                               Field(firstObject, HeadersKey)),
                                      Field(r, HeadersKey)))
        bodyText == toBodyText(
            Coalesce(Coalesce(Coalesce(Coalesce(Coalesce(
                responseOr(BodyKey), responseOr(DataKey)),
                Field(firstObject, BodyKey)), Field(firstObject, DataKey)),
                Field(r, BodyKey)), Field(r, DataKey)))
    IN  IF ~statusCode.finite THEN Err("E_REPORT", "status")
        ELSE Ok([statusCode |-> statusCode.n, headers |-> headers,
                 bodyText |-> bodyText])

ReplacementChar == "U+FFFD"

\* the characters of the model that UTF-8 encodes in three bytes
ThreeByteChars == {"U+20AC", ReplacementChar}

\* the UTF-8 length of one character of the model: one byte for ASCII,
\* two for the other tokens below U+0800, three for the rest
ByteLen(c) == IF Len(c) = 1 THEN 1 ELSE IF c \in ThreeByteChars THEN 3 ELSE 2

\* Buffer.byteLength(s, 'utf8')
RECURSIVE ByteLength(_)
ByteLength(s) == IF s = <<>> THEN 0 ELSE ByteLen(Head(s)) + ByteLength(Tail(s))

\* Buffer.from(s, 'utf8'): byte i of the encoding of character c is <<c, i>>
RECURSIVE Utf8Encode(_)
Utf8Encode(s) ==
    IF s = <<>> THEN <<>>
    ELSE [i \in 1..ByteLen(Head(s)) |-> <<Head(s), i>>] \o Utf8Encode(Tail(s))

\* buf.toString('utf8') of a prefix of an encoding: a whole character
\* decodes to itself, the bytes of one cut in two to one replacement
\* character
RECURSIVE Utf8Decode(_)
Utf8Decode(bytes) ==
    IF bytes = <<>> THEN <<>>
    ELSE LET c == bytes[1][1]
         IN  IF Len(bytes) >= ByteLen(c)
             THEN <<c>> \o Utf8Decode(SubSeq(bytes, ByteLen(c) + 1, Len(bytes)))
             ELSE <<ReplacementChar>>

\* Buffer.from(s, 'utf8').subarray(0, n).toString('utf8')
FirstBytes(s, n) ==
    LET buf == Utf8Encode(s)
    IN  Utf8Decode(SubSeq(buf, 1, IF n < Len(buf) THEN n ELSE Len(buf)))

StatusLabel == <<"S", "t", "a", "t", "u", "s", ":", " ">>

HeadersLabel == <<"\n", "\n", "H", "e", "a", "d", "e", "r", "s", ":", "\n">>

BodyLabel == <<"\n", "\n", "B", "o", "d", "y", ":", "\n">>

TruncatedLabel(bodyLimitBytes) ==
    <<"\n", "[", "t", "r", "u", "n", "c", "a", "t", "e", "d", " ", "t", "o", " ">>
    \o NumText(bodyLimitBytes) \o <<" ", "b", "y", "t", "e", "s", "]">>

\* A plausible slip: a body of exactly the cap is truncated too.
formatToolOutputAtCap(view, bodyLimitBytes) ==
    LET body == IF ByteLength(view.bodyText) >= bodyLimitBytes
                THEN FirstBytes(view.bodyText, bodyLimitBytes)
                     \o TruncatedLabel(bodyLimitBytes)
                ELSE view.bodyText
    IN  StatusLabel \o NumText(view.statusCode) \o HeadersLabel
        \o Stringify(view.headers, 0) \o BodyLabel \o body

formatToolOutput(view, bodyLimitBytes) ==
    LET body == IF ByteLength(view.bodyText) > bodyLimitBytes
                THEN FirstBytes(view.bodyText, bodyLimitBytes)
                     \o TruncatedLabel(bodyLimitBytes)
                ELSE view.bodyText
    IN  StatusLabel \o NumText(view.statusCode) \o HeadersLabel
        \o Stringify(view.headers, 0) \o BodyLabel \o body

\* The report file after the child has closed: None when there is none,
\* else its text, which JSON.parse rejects or turns into a value.
NoReport == None

BadJson == Some([json |-> FALSE])

JsonOf(v) == Some([json |-> TRUE, value |-> v])

\* lines 405-422 of runBrunoTool
ReadAndFormat(report, bodyLimitBytes) ==
    IF report = NoReport THEN Err("E_REPORT", "not found")
    ELSE IF ~report[1].json THEN Err("E_REPORT", "invalid JSON")
    ELSE LET view == extractReportView(report[1].value)
         IN  IF ~view.ok THEN view
             ELSE Ok(formatToolOutput(view.value, bodyLimitBytes))

(***************************************************************************)
(* mcp.ts, the call-tool handler                                           *)
(***************************************************************************)
\* return { content: [{ type: 'text', text }] }
TextResult(text) == [isError |-> FALSE, rejected |-> FALSE, text |-> text]

\* A plausible slip: only the errors of the request itself are turned
\* into a result, those of the runner are thrown on.
CatchRequestErrorsOnly(err) ==
    [isError |-> err.code \in {"E_TOOL_NOT_FOUND", "E_INPUT"},
     rejected |-> err.code \notin {"E_TOOL_NOT_FOUND", "E_INPUT"},
     error |-> err]

\* catch (err) { return { isError: true, content: [{ type: 'text', text:
\* message }] } }
CatchError(err) == [isError |-> TRUE, rejected |-> FALSE, error |-> err]

\* A plausible slip: a tool is dropped from the map once it has been used.
MapAfterGetOnce(toolsMap, name) ==
    SelectSeq(toolsMap, LAMBDA t : t.toolName # name)

\* the map after tools.get(name) and [...tools.values()]: reading never
\* changes it
MapAfterGet(toolsMap, name) == toolsMap

\* A plausible slip: every call writes its report at one fixed path.
ReportPathShared(c) ==
    <<"/", "t", "/", "r", ".", "j", "s", "o", "n">>

\* path.join(tmpDir, `${randomUUID()}.json`): one fresh directory per call
ReportPathOf(c) ==
    <<"/", "t", "/">> \o NumText(c) \o <<"/", "r", ".", "j", "s", "o", "n">>

\* what a call has done when it stops before the spawn, or spawns
Prepared(error, target, validated, callVars, tmpDir, pass, args) ==
    [error |-> error, target |-> target, validated |-> validated,
     callVars |-> callVars, tmpDir |-> tmpDir, envMap |-> pass, args |-> args]

\* A plausible slip: the arguments are validated before the tool is looked
\* up.
CallPrepareValidatingFirst(toolsMap, envName, name, payload, c) ==
    LET resolved == resolveToolTarget(toolsMap, name)
        validatedVars == validateVars(payload)
        target == resolved.value
        callVars == validatedVars.value
        envOk == EnvCheck(target, envName, callVars)
        pass == buildVarsPassThrough(callVars)
    IN  IF ~validatedVars.ok
        THEN Prepared(Some(validatedVars), None, TRUE, None, FALSE, <<>>, <<>>)
        ELSE IF ~resolved.ok
        THEN Prepared(Some(resolved), None, TRUE, callVars, FALSE, <<>>, <<>>)
        ELSE IF ~envOk.ok
        THEN Prepared(Some(envOk), Some(target), TRUE, callVars, FALSE, <<>>, <<>>)
        ELSE IF ~pass.ok
        THEN Prepared(Some(pass), Some(target), TRUE, callVars, TRUE, <<>>, <<>>)
        ELSE Prepared(None, Some(target), TRUE, callVars, TRUE, pass.value.envMap,
                      SpawnArgs(target, envName, pass.value.envVarArgs,
                                ReportPathOf(c)))

\* the handler and runBrunoTool up to the spawn, for call number c:
\* resolveToolTarget, validateVars, the environment test, fs.mkdtemp,
\* buildVarsPassThrough
CallPrepare(toolsMap, envName, name, payload, c) ==
    LET resolved == resolveToolTarget(toolsMap, name)
        validatedVars == validateVars(payload)
        target == resolved.value
        callVars == validatedVars.value
        envOk == EnvCheck(target, envName, callVars)
        pass == buildVarsPassThrough(callVars)
    IN  IF ~resolved.ok
        THEN Prepared(Some(resolved), None, FALSE, None, FALSE, <<>>, <<>>)
        ELSE IF ~validatedVars.ok
        THEN Prepared(Some(validatedVars), Some(target), TRUE, None, FALSE,
                      <<>>, <<>>)
        ELSE IF ~envOk.ok
        THEN Prepared(Some(envOk), Some(target), TRUE, callVars, FALSE, <<>>, <<>>)
        ELSE IF ~pass.ok
        THEN Prepared(Some(pass), Some(target), TRUE, callVars, TRUE, <<>>, <<>>)
        ELSE Prepared(None, Some(target), TRUE, callVars, TRUE, pass.value.envMap,
                      SpawnArgs(target, envName, pass.value.envVarArgs,
                                ReportPathOf(c)))

StderrTailLines == 10

NoStderrText == <<"N", "o", " ", "s", "t", "d", "e", "r", "r", " ",
                  "o", "u", "t", "p", "u", "t", ".">>

\* lines.slice(-n)
LastN(lines, n) ==
    IF Len(lines) <= n THEN lines ELSE SubSeq(lines, Len(lines) - n + 1, Len(lines))

\* runResult.stderr.trim().split('\n').slice(-10).join('\n')
StderrTail(stderr) ==
    JoinWith(LastN(SplitOn(Trim(stderr), "\n"), StderrTailLines), <<"\n">>)

\* new AppError('E_BRU_EXIT', `Bruno CLI exited with code ${code}.
\* ${stderrTail || 'No stderr output.'}`)
BruExitError(code, stderr) ==
    [ok |-> FALSE, code |-> "E_BRU_EXIT", what |-> "exit code", exit |-> code,
     detail |-> IF StderrTail(stderr) = <<>> THEN NoStderrText
                ELSE StderrTail(stderr)]

\* A plausible slip: the exit code is looked at before the timeout flag.
AfterCloseCodeFirst(timedOut, code, stderr, report, bodyLimitBytes) ==
    IF code # Some(0) THEN [result |-> BruExitError(code, stderr), read |-> FALSE]
    ELSE IF timedOut THEN [result |-> Err("E_TIMEOUT", "timed out"), read |-> FALSE]
    ELSE [result |-> ReadAndFormat(report, bodyLimitBytes), read |-> TRUE]

\* A plausible slip: a child that a signal ended counts as a success.
AfterCloseNullPasses(timedOut, code, stderr, report, bodyLimitBytes) ==
    IF timedOut THEN [result |-> Err("E_TIMEOUT", "timed out"), read |-> FALSE]
    ELSE IF code \notin {None, Some(0)}
    THEN [result |-> BruExitError(code, stderr), read |-> FALSE]
    ELSE [result |-> ReadAndFormat(report, bodyLimitBytes), read |-> TRUE]

\* lines 393-422 of runBrunoTool, once the promise has resolved with
\* { code, stderr, timedOut }: the outcome, and whether the report file was
\* read
AfterClose(timedOut, code, stderr, report, bodyLimitBytes) ==
    IF timedOut THEN [result |-> Err("E_TIMEOUT", "timed out"), read |-> FALSE]
    ELSE IF code # Some(0)
    THEN [result |-> BruExitError(code, stderr), read |-> FALSE]
    ELSE [result |-> ReadAndFormat(report, bodyLimitBytes), read |-> TRUE]

\* what the handler returns for the value or error runBrunoTool settled with
HandlerResult(settled) ==
    IF settled.ok THEN TextResult(settled.value) ELSE CatchError(settled)

(***************************************************************************)
(* runner.ts, the child process of one call.  A call record holds the      *)
(* state of the promise executor of runBrunoTool: the child ("failing"     *)
(* when spawn could not start it and its 'error' event is due, "running",  *)
(* "exited" once the process is gone, "closed" once its 'close' event has  *)
(* been handled), the timeout and kill timers, the timedOut flag and the   *)
(* signals sent.                                                           *)
(***************************************************************************)
\* { ...a, ...b }: the keys of a in their order with b's values where b has
\* them, then the other keys of b
RECURSIVE MergeEnv(_, _)
MergeEnv(a, b) ==
    IF b = <<>> THEN a
    ELSE MergeEnv(IF \E i \in DOMAIN a : a[i].k = Head(b).k
                  THEN [i \in DOMAIN a |->
                           IF a[i].k = Head(b).k THEN Head(b) ELSE a[i]]
                  ELSE Append(a, Head(b)),
                  Tail(b))

\* the call stops with the error it threw before the spawn
StoppedCall(name, payload, prepared) ==
    [st |-> "done", name |-> name, payload |-> payload,
     target |-> prepared.target, validated |-> prepared.validated,
     callVars |-> prepared.callVars, tmpDir |-> prepared.tmpDir,
     spawned |-> FALSE, args |-> <<>>, env |-> <<>>, child |-> "none",
     code |-> None, timer |-> "none", killTimer |-> "none", timedOut |-> FALSE,
     signals |-> <<>>, report |-> NoReport, reportRead |-> FALSE,
     result |-> Some(CatchError(prepared.error[1])), childAtReturn |-> "none",
     reportPath |-> <<>>, stderr |-> <<>>, killAfterMs |-> 0,
     wrote |-> NoReport]

\* A plausible slip: the variables of the call are written into process.env
\* for the child to inherit.
ProcessEnvAssigned(env, envMap) == MergeEnv(env, envMap)

\* process.env after `{ ...process.env, ...envMap }`: the spread copies,
\* and nothing is assigned to process.env
ProcessEnvAfter(env, envMap) == env

\* spawn('bru', args, { cwd, env, stdio }) and setTimeout(..., timeoutMs);
\* env is { ...process.env, ...envMap }
SpawnedCall(name, payload, prepared, started, env, reportPath) ==
    [st |-> "running", name |-> name, payload |-> payload,
     target |-> prepared.target, validated |-> prepared.validated,
     callVars |-> prepared.callVars, tmpDir |-> prepared.tmpDir,
     spawned |-> TRUE, args |-> prepared.args,
     env |-> MergeEnv(env, prepared.envMap),
     child |-> IF started THEN "running" ELSE "failing",
     code |-> None, timer |-> "armed", killTimer |-> "none", timedOut |-> FALSE,
     signals |-> <<>>, report |-> NoReport, reportRead |-> FALSE,
     result |-> None, childAtReturn |-> "none",
     reportPath |-> reportPath, stderr |-> <<>>, killAfterMs |-> 0,
     wrote |-> NoReport]

\* child.on('error'): the promise is rejected; the 'close' event of a child
\* that never started follows at once and clears the timer
OnSpawnError(call) ==
    [call EXCEPT !.st = "done", !.child = "failed", !.timer = "cleared",
                 !.result = Some(CatchError(Err("E_RUNNER", "failed to spawn"))),
                 !.childAtReturn = "failed"]

\* setTimeout(() => child.kill('SIGKILL'), 1_000)
KillGraceMs == 1000

\* A plausible slip: the timeout callback rejects the promise itself
\* instead of leaving the outcome to the 'close' handler.
OnTimeoutRejecting(call) ==
    [call EXCEPT !.st = "done", !.timedOut = TRUE, !.timer = "fired",
                 !.signals = IF call.child = "running"
                             THEN Append(@, "SIGTERM") ELSE @,
                 !.killTimer = "armed", !.killAfterMs = KillGraceMs,
                 !.result = Some(CatchError(Err("E_TIMEOUT", "timed out"))),
                 !.childAtReturn = call.child]

\* A plausible slip: SIGTERM is sent and no kill timer is set.
OnTimeoutTermOnly(call) ==
    [call EXCEPT !.timedOut = TRUE, !.timer = "fired",
                 !.signals = IF call.child = "running"
                             THEN Append(@, "SIGTERM") ELSE @]

\* the timeout callback: timedOut = true, child.kill('SIGTERM'), and the
\* kill timer is armed; kill does nothing to a child that has exited
OnTimeout(call) ==
    [call EXCEPT !.timedOut = TRUE, !.timer = "fired",
                 !.signals = IF call.child = "running"
                             THEN Append(@, "SIGTERM") ELSE @,
                 !.killTimer = "armed", !.killAfterMs = KillGraceMs]

\* A plausible slip: SIGKILL goes to the process whether or not it is still
\* there.
OnKillTimerUnguarded(call) ==
    [call EXCEPT !.killTimer = "fired",
                 !.signals = Append(@, "SIGKILL"),
                 !.child = IF call.child = "running" THEN "exited" ELSE @,
                 !.code = IF call.child = "running" THEN None ELSE @]

\* the kill timer: child.kill('SIGKILL'), which a running child cannot
\* survive; kill does nothing to a child that has exited
OnKillTimer(call) ==
    [call EXCEPT !.killTimer = "fired",
                 !.signals = IF call.child = "running"
                             THEN Append(@, "SIGKILL") ELSE @,
                 !.child = IF call.child = "running" THEN "exited" ELSE @,
                 !.code = IF call.child = "running" THEN None ELSE @]

\* the process ends with an exit code, or None when a signal ended it;
\* what it wrote to stderr has been received by then, and `wrote` is the
\* report it wrote at the path after --output (NoReport when it wrote none)
OnExit(call, code, stderr, wrote) ==
    [call EXCEPT !.child = "exited", !.code = code, !.stderr = stderr,
                 !.wrote = wrote]

\* the value after `--output` in the argument list of a child
OutputPathOf(args) ==
    args[(CHOOSE i \in DOMAIN args : args[i] = ArgOutput) + 1]

\* the files once a child has written `content` at `path`
WriteFile(files, path, content) ==
    { f \in files : f[1] # path } \cup {<<path, content>>}

\* fs.readFile(path): the content, or NoReport when there is no such file
ReadFile(files, path) ==
    IF \E f \in files : f[1] = path
    THEN (CHOOSE f \in files : f[1] = path)[2]
    ELSE NoReport

\* A plausible slip: the close handler resolves and leaves the timer alone.
OnCloseTimerKept(call, report, after) ==
    LET settled == call.st = "done"
    IN  [call EXCEPT !.st = "done", !.child = "closed",
                     !.report = report,
                     !.reportRead = IF settled THEN @ ELSE after.read,
                     !.result = IF settled THEN @
                                ELSE Some(HandlerResult(after.result)),
                     !.childAtReturn = IF settled THEN @ ELSE "closed"]

\* child.on('close'): clearTimeout, resolve({ code, stderr, timedOut }), and
\* the rest of runBrunoTool; resolving a settled promise changes nothing
\* (`report` is the file at the call's reportPath, `after` what lines
\* 393-422 make of it)
OnClose(call, report, after) ==
    LET settled == call.st = "done"
    IN  [call EXCEPT !.st = "done", !.child = "closed",
                     !.timer = IF @ = "armed" THEN "cleared" ELSE @,
                     !.report = report,
                     !.reportRead = IF settled THEN @ ELSE after.read,
                     !.result = IF settled THEN @
                                ELSE Some(HandlerResult(after.result)),
                     !.childAtReturn = IF settled THEN @ ELSE "closed"]

(***************************************************************************)
(* args.ts.  The command line holds absolute paths only, so path.resolve   *)
(* never consults the working directory.                                   *)
(***************************************************************************)
FlagBru == <<"-", "-", "b", "r", "u">>

FlagCollection == <<"-", "-", "c", "o", "l", "l", "e", "c", "t", "i", "o", "n">>

FlagEnv == <<"-", "-", "e", "n", "v">>

FlagPrefix == <<"-", "-", "p", "r", "e", "f", "i", "x">>

FlagName == <<"-", "-", "n", "a", "m", "e">>

NoRawArgs == [bru |-> None, collection |-> None, env |-> None,
              prefix |-> None, name |-> None]

\* the loop of parseRawArgs from argv[i] on
RECURSIVE ParseLoop(_, _, _)
ParseLoop(argv, i, raw) ==
    IF i > Len(argv) THEN Ok(raw)
    ELSE LET arg == argv[i]
             hasNext == i + 1 <= Len(argv) /\ argv[i + 1] # <<>>
             next == argv[i + 1]
         IN  IF arg \notin {FlagBru, FlagCollection, FlagEnv, FlagPrefix, FlagName}
             THEN Err("E_ARGS", "unknown argument")
             ELSE IF ~hasNext THEN Err("E_ARGS", "missing value")
             ELSE ParseLoop(argv, i + 2,
                     IF arg = FlagBru THEN [raw EXCEPT !.bru = Some(next)]
                     ELSE IF arg = FlagCollection
                     THEN [raw EXCEPT !.collection = Some(next)]
                     ELSE IF arg = FlagEnv THEN [raw EXCEPT !.env = Some(next)]
                     ELSE IF arg = FlagPrefix THEN [raw EXCEPT !.prefix = Some(next)]
                     ELSE [raw EXCEPT !.name = Some(next)])

parseRawArgs(argv) == ParseLoop(argv, 1, NoRawArgs)

\* path.resolve(p) of an absolute path
PathResolve(p) == <<PathSep>> \o JoinWith(AbsParts(p), <<PathSep>>)

\* path.dirname(p) of a resolved absolute path
Dirname(p) ==
    LET parts == AbsParts(p)
    IN  IF Len(parts) <= 1 THEN <<PathSep>>
        ELSE <<PathSep>> \o JoinWith(SubSeq(parts, 1, Len(parts) - 1), <<PathSep>>)

\* the directories that exist without being an entry of the tree
BaseDirs == {<<PathSep>>, RootAbs}

EntryAt(tree, abs) == CHOOSE e \in tree : EntryAbs(e) = abs

Exists(tree, abs) == abs \in BaseDirs \/ \E e \in tree : EntryAbs(e) = abs

\* fs.realpath(abs) of an existing path
Realpath(tree, abs) == IF abs \in BaseDirs THEN abs ELSE EntryAt(tree, abs).real

\* what fs.stat(abs) reports of an existing path: links are followed
StatOf(tree, abs) == IF abs \in BaseDirs THEN "dir" ELSE EntryAt(tree, abs).to

\* access(real, R_OK): a directory can be listed, a file is readable when
\* the model holds its text or it is no request file
CanRead(tree, real) ==
    StatOf(tree, real) = "dir" \/ Readable(real) \/ ~EndsWith(real, DotBru)

resolveReadablePath(tree, inputPath, expected) ==
    LET rawSegments == FilterNonEmpty(SplitOn(inputPath, PathSep))
        abs == PathResolve(inputPath)
        real == Realpath(tree, abs)
    IN  IF <<".", ".">> \in Range(rawSegments)
        THEN Err("E_ARGS", "path traversal token")
        ELSE IF ~Exists(tree, abs) THEN Err("E_ARGS", "path not found")
        ELSE IF ~Exists(tree, real) THEN Err("E_ARGS", "unable to stat")
        ELSE IF StatOf(tree, real) # expected THEN Err("E_ARGS", "unexpected type")
        ELSE IF ~CanRead(tree, real) THEN Err("E_ARGS", "not readable")
        ELSE Ok(real)

MarkerName == <<"b", "r", "u", "n", "o", ".", "j", "s", "o", "n">>

\* stat(path.join(current, 'bruno.json')) succeeds and reports a file
HasMarker(tree, current) ==
    LET marker == PathResolve(PathJoin(current, MarkerName))
    IN  Exists(tree, marker) /\ StatOf(tree, marker) = "file"

\* A plausible slip: only the directory given is looked at.
resolveCollectionRootHere(tree, current) ==
    IF HasMarker(tree, current) THEN Ok(current)
    ELSE Err("E_ARGS", "collection root not found")

\* the loop of resolveCollectionRoot from `current` upwards
RECURSIVE resolveCollectionRoot(_, _)
resolveCollectionRoot(tree, current) ==
    IF HasMarker(tree, current) THEN Ok(current)
    ELSE IF Dirname(current) = current THEN Err("E_ARGS", "collection root not found")
    ELSE resolveCollectionRoot(tree, Dirname(current))

TimeoutMs == 30000

BodyLimitBytes == 65536

\* the ServerConfig both branches of parseAndValidateArgs build
ConfigOf(mode, bruFileAbs, collectionRootAbs, raw) ==
    [mode |-> mode, bruFileAbs |-> bruFileAbs,
     collectionRootAbs |-> collectionRootAbs,
     envName |-> raw.env,
     prefixArg |-> IF raw.prefix = None THEN <<>> ELSE raw.prefix[1],
     nameArg |-> raw.name,
     timeoutMs |-> TimeoutMs, bodyLimitBytes |-> BodyLimitBytes]

parseAndValidateArgs(tree, argv) ==
    LET parsed == parseRawArgs(argv)
        raw == parsed.value
        hasBru == raw.bru # None
        hasCollection == raw.collection # None
        bruFile == resolveReadablePath(tree, raw.bru[1], "file")
        singleRoot == resolveCollectionRoot(tree, Dirname(bruFile.value))
        collectionRoot == resolveReadablePath(tree, raw.collection[1], "dir")
        marker == resolveCollectionRoot(tree, collectionRoot.value)
    IN  IF ~parsed.ok THEN parsed
        ELSE IF hasBru = hasCollection THEN Err("E_ARGS", "exactly one of")
        ELSE IF hasBru
        THEN IF ~EndsWith(raw.bru[1], DotBru) THEN Err("E_ARGS", "not a .bru file")
             ELSE IF ~bruFile.ok THEN bruFile
             ELSE IF ~singleRoot.ok THEN singleRoot
             ELSE Ok(ConfigOf("single", Some(bruFile.value), singleRoot.value, raw))
        ELSE IF ~collectionRoot.ok THEN collectionRoot
        ELSE IF ~marker.ok THEN marker
        ELSE Ok(ConfigOf("collection", None, collectionRoot.value, raw))

(***************************************************************************)
(* naming.ts, single mode                                                  *)
(***************************************************************************)
\* path.basename(p, '.bru'): the suffix is compared case-sensitively and a
\* base name that is the suffix itself is kept
BasenameNoBru(p) ==
    LET base == Basename(p)
    IN  IF EndsWith(base, DotBru) /\ base # DotBru
        THEN SubSeq(base, 1, Len(base) - 4) ELSE base

\* A plausible variant: the containment test comes before the file is read.
buildSingleToolMapCheckFirst(bruFileAbs, collectionRootAbs, prefix, nameOverride) ==
    LET fileStem == sanitizeSegment(BasenameNoBru(bruFileAbs))
        toolName == IF nameOverride # None THEN validateToolName(nameOverride[1])
                    ELSE validateToolName(prefix \o <<"_">> \o fileStem)
        templateVars == TemplateVariablesOf(FileText[bruFileAbs])
        relativePath == PathRelative(collectionRootAbs, bruFileAbs)
    IN  IF fileStem = <<>>
        THEN [ok |-> FALSE, code |-> "E_NAMING", what |-> "invalid file name",
              reads |-> <<>>]
        ELSE IF ~toolName.ok
        THEN [ok |-> FALSE, code |-> toolName.code, what |-> toolName.what,
              reads |-> <<>>]
        ELSE IF EscapesRoot(relativePath)
        THEN [ok |-> FALSE, code |-> "E_DISCOVERY", what |-> "path traversal",
              reads |-> <<>>]
        ELSE IF ~Readable(bruFileAbs)
        THEN [ok |-> FALSE, code |-> "ENOENT", what |-> "readFile failed",
              reads |-> <<bruFileAbs>>]
        ELSE [ok |-> TRUE,
              value |-> <<[toolName |-> toolName.value,
                           bruFileAbs |-> bruFileAbs,
                           collectionRootAbs |-> collectionRootAbs,
                           requestPathNoExt |-> RequestPathNoExt(relativePath),
                           requiresEnv |-> Len(templateVars) > 0,
                           templateVars |-> templateVars,
                           docs |-> extractDocsFromBruContent(
                                        FileText[bruFileAbs])]>>,
              reads |-> <<bruFileAbs>>]

\* nameOverride is None when --name is absent
buildSingleToolMap(bruFileAbs, collectionRootAbs, prefix, nameOverride) ==
    LET fileStem == sanitizeSegment(BasenameNoBru(bruFileAbs))
        toolName == IF nameOverride # None THEN validateToolName(nameOverride[1])
                    ELSE validateToolName(prefix \o <<"_">> \o fileStem)
        templateVars == TemplateVariablesOf(FileText[bruFileAbs])
        relativePath == PathRelative(collectionRootAbs, bruFileAbs)
    IN  IF fileStem = <<>>
        THEN [ok |-> FALSE, code |-> "E_NAMING", what |-> "invalid file name",
              reads |-> <<>>]
        ELSE IF ~toolName.ok
        THEN [ok |-> FALSE, code |-> toolName.code, what |-> toolName.what,
              reads |-> <<>>]
        ELSE IF ~Readable(bruFileAbs)
        THEN [ok |-> FALSE, code |-> "ENOENT", what |-> "readFile failed",
              reads |-> <<bruFileAbs>>]
        ELSE IF EscapesRoot(relativePath)
        THEN [ok |-> FALSE, code |-> "E_DISCOVERY", what |-> "path traversal",
              reads |-> <<bruFileAbs>>]
        ELSE [ok |-> TRUE,
              value |-> <<[toolName |-> toolName.value,
                           bruFileAbs |-> bruFileAbs,
                           collectionRootAbs |-> collectionRootAbs,
                           requestPathNoExt |-> RequestPathNoExt(relativePath),
                           requiresEnv |-> Len(templateVars) > 0,
                           templateVars |-> templateVars,
                           docs |-> extractDocsFromBruContent(
                                        FileText[bruFileAbs])]>>,
              reads |-> <<bruFileAbs>>]

(***************************************************************************)
(* Bounded strings.                                                        *)
(***************************************************************************)
StringsUpTo(alphabet, n) == UNION { [1..k -> alphabet] : k \in 0..n }

\* lower-case and upper-case letters, a digit, the underscore, punctuation,
\* and two non-ASCII code points (one whose lower-case form is longer)
SegAlphabet == {"a", "B", "1", "_", "-", "U+0130"}

(***************************************************************************)
(* SpecSanitize: sanitizeSegment applied once and twice to any input.      *)
(***************************************************************************)
SanIdle ==
    /\ segIn = <<>>
    /\ segOut = <<>>
    /\ segOut2 = <<>>
    /\ segStage = 0

\* no call of buildCollectionToolMap has settled
Pending == [pending |-> TRUE]

NamingIdle ==
    /\ nmFiles = <<>>
    /\ nmResult = Pending

DiscoverIdle ==
    /\ fsTree = {}
    /\ dirOrder = "asc"
    /\ dsResult = Pending

\* a call-tool request that has not arrived
FreeCall ==
    [st |-> "free", name |-> <<>>, payload |-> Undefined, target |-> None,
     validated |-> FALSE, callVars |-> None, tmpDir |-> FALSE, spawned |-> FALSE,
     args |-> <<>>, env |-> <<>>, child |-> "none", code |-> None,
     timer |-> "none", killTimer |-> "none", timedOut |-> FALSE,
     signals |-> <<>>, report |-> NoReport, reportRead |-> FALSE,
     result |-> None, childAtReturn |-> "none", reportPath |-> <<>>,
     stderr |-> <<>>, killAfterMs |-> 0,
     wrote |-> NoReport]

\* main has not been started
ServerIdle ==
    /\ procArgv = <<>>
    /\ mainPc = "off"
    /\ mainConfig = Pending
    /\ mainPrefix = <<>>
    /\ srvTools = <<>>
    /\ toolsAtStart = <<>>
    /\ exitCode = 0
    /\ startError = Pending
    /\ calls = [c \in 1..MaxCalls |-> FreeCall]
    /\ lists = <<>>
    /\ procEnv = <<>>
    /\ tmpFiles = {}

\* no function is under test
FnIdle ==
    /\ fnIn = Pending
    /\ fnOut = Pending

SanitizeInit ==
    /\ segIn \in StringsUpTo(SegAlphabet, MaxSegLen)
    /\ segOut = <<>>
    /\ segOut2 = <<>>
    /\ segStage = 0
    /\ NamingIdle
    /\ DiscoverIdle
    /\ ServerIdle
    /\ FnIdle

SanitizeOnce ==
    /\ segStage = 0
    /\ segOut' = sanitizeSegment(segIn)
    /\ segStage' = 1
    /\ UNCHANGED <<segIn, segOut2, nmVars, dsVars, srvVars, osVars, fnVars>>

SanitizeAgain ==
    /\ segStage = 1
    /\ segOut2' = sanitizeSegment(segOut)
    /\ segStage' = 2
    /\ UNCHANGED <<segIn, segOut, nmVars, dsVars, srvVars, osVars, fnVars>>

SanitizeNext == SanitizeOnce \/ SanitizeAgain

SpecSanitize == SanitizeInit /\ [][SanitizeNext]_vars

(***************************************************************************)
(* SpecNaming: buildCollectionToolMap on any list of files of the pool.    *)
(***************************************************************************)
NamingPool ==
    {FileA1, FileA2, FileB, FileColl, FileOut, FileDash, FileCollUpper, FileCollOut}

NamingPrefix == <<"p">>

NamingInit ==
    /\ nmFiles \in StringsUpTo(NamingPool, MaxFiles)
    /\ nmResult = Pending
    /\ SanIdle
    /\ DiscoverIdle
    /\ ServerIdle
    /\ FnIdle

BuildMap ==
    /\ nmResult = Pending
    /\ nmResult' = buildCollectionToolMap(nmFiles, RootAbs, NamingPrefix)
    /\ UNCHANGED <<nmFiles, sanVars, dsVars, srvVars, osVars, fnVars>>

SpecNaming == NamingInit /\ [][BuildMap]_vars

(***************************************************************************)
(* SpecDiscover: discoverBruFiles on any file tree made of entries of the  *)
(* pool, with the directories listed in either order.                      *)
(***************************************************************************)
DirD == PathJoin(RootAbs, <<"d">>)                       \* /r/d
DirEnv == PathJoin(DirD, <<"E">> \o Tail(Environments))  \* /r/d/Environments
DirL == PathJoin(RootAbs, <<"l">>)                       \* /r/l -> /r/d

EntA == Plain(RootAbs, <<"a">> \o DotBru, "file")
EntB == Plain(RootAbs, <<"B">> \o DotBru, "file")
EntD == Plain(RootAbs, <<"d">>, "dir")
EntDX == Plain(DirD, <<"x">> \o DotBru, "file")
EntEnv == Plain(DirD, <<"E">> \o Tail(Environments), "dir")
EntEnvP == Plain(DirEnv, <<"p">> \o DotBru, "file")
\* a symbolic link to a file outside the root
EntLinkFile == Entry(RootAbs, <<"k">> \o DotBru, "link", "file", FileOut)
\* a symbolic link to the directory /r/d, and x.bru as seen through it
EntLinkDir == Entry(RootAbs, <<"l">>, "link", "dir", DirD)
EntLinkDirX == Entry(DirL, <<"x">> \o DotBru, "file", "file",
                     PathJoin(DirD, <<"x">> \o DotBru))
EntTxt == Plain(RootAbs, <<"n", ".", "t", "x", "t">>, "file")
\* a regular file whose canonical path lies outside the root (an ancestor
\* was replaced by a link after the directory was listed)
EntEscape == Entry(DirD, <<"e">> \o DotBru, "file", "file", FileOut)
EntFifo == Plain(RootAbs, <<"f">> \o DotBru, "other")

EntryPool ==
    {EntA, EntB, EntD, EntDX, EntEnv, EntEnvP, EntLinkFile, EntLinkDir,
     EntLinkDirX, EntTxt, EntEscape, EntFifo}

\* every entry lies in the root or in a directory (or linked directory) of
\* the tree
WellFormed(tree) ==
    \A e \in tree :
        \/ e.parent = RootAbs
        \/ \E d \in tree : EntryAbs(d) = e.parent /\ d.to = "dir"

DiscoverInit ==
    /\ fsTree \in { t \in SUBSET EntryPool :
                        Cardinality(t) <= MaxEntries /\ WellFormed(t) }
    /\ dirOrder \in {"asc", "desc"}
    /\ dsResult = Pending
    /\ SanIdle
    /\ NamingIdle
    /\ ServerIdle
    /\ FnIdle

Discover ==
    /\ dsResult = Pending
    /\ dsResult' = discoverBruFiles(fsTree, RootAbs, dirOrder)
    /\ UNCHANGED <<fsTree, dirOrder, sanVars, nmVars, srvVars, osVars, fnVars>>

SpecDiscover == DiscoverInit /\ [][Discover]_vars

(***************************************************************************)
(* Spec: one run of the process.  main parses the command line, derives    *)
(* the prefix, builds the registry and starts the server; the server then  *)
(* answers list-tools and call-tool requests, each call running one child  *)
(* process whose exit, close and timeout events interleave freely.         *)
(***************************************************************************)
DirA == PathJoin(RootAbs, <<"a">>)                      \* /r/a

EntMarker == Plain(RootAbs, MarkerName, "file")
EntDirA == Plain(RootAbs, <<"a">>, "dir")
EntA1 == Plain(DirA, <<"x", "-", "1">> \o DotBru, "file")
EntA2 == Plain(DirA, <<"x", "_", "1">> \o DotBru, "file")
EntColl == Plain(DirA, <<"C">> \o Tail(CollectionBru), "file")
EntDash == Plain(RootAbs, <<"-", "-">> \o DotBru, "file")

TreeGood == {EntMarker, EntB, EntDirA, EntA2}
TreeCollide == {EntMarker, EntDirA, EntA1, EntA2}
TreeEscape == {EntMarker, EntB, EntD, EntEscape}
TreeEmpty == {EntMarker, EntTxt}
TreeNoMarker == {EntB}
TreeDash == {EntMarker, EntB, EntDash}
TreeCollOnly == {EntMarker, EntDirA, EntColl}
TreeOneFile == {EntMarker, EntB}

TreePool ==
    {TreeGood, TreeCollide, TreeEscape, TreeEmpty, TreeNoMarker, TreeDash,
     TreeCollOnly}

EnvDev == <<"d", "e", "v">>

ArgvCollection == <<FlagCollection, RootAbs>>
ArgvEnv == <<FlagCollection, RootAbs, FlagEnv, EnvDev>>
ArgvPrefix == <<FlagCollection, RootAbs, FlagPrefix, <<"T", "-", "1">>>>
ArgvBru == <<FlagBru, FileB>>
ArgvBruName == <<FlagBru, FileB, FlagName, <<"g", "e", "t">>>>
ArgvBruBadName == <<FlagBru, FileB, FlagName, <<"G", "e", "t">>>>
ArgvBoth == <<FlagBru, FileB, FlagCollection, RootAbs>>
ArgvNoValue == <<FlagCollection>>
ArgvEmptyPrefix == <<FlagCollection, RootAbs, FlagPrefix, <<"-", "-">>>>
ArgvMissingDir == <<FlagCollection, <<"/", "q">>>>
ArgvUnknown == <<<<"-", "-", "v">>>>
ArgvDotDot == <<FlagCollection, RootAbs \o <<"/", ".", ".", "/", "r">>>>
ArgvNotBru == <<FlagBru, PathJoin(RootAbs, <<"n", ".", "t", "x", "t">>)>>
ArgvSubdir == <<FlagCollection, DirA>>

ArgvPool ==
    {ArgvCollection, ArgvEnv, ArgvPrefix, ArgvBru, ArgvBruName, ArgvBruBadName,
     ArgvBoth, ArgvNoValue, ArgvEmptyPrefix, ArgvMissingDir, ArgvUnknown,
     ArgvDotDot, ArgvNotBru, ArgvSubdir}

\* the runs of the model: the command lines on the well-formed collection,
\* every collection under the plain command line, and five more runs
Scenarios ==
    { <<a, TreeGood>> :
        a \in ArgvPool \ {ArgvPrefix, ArgvSubdir, ArgvBruName, ArgvEnv} }
    \cup { <<ArgvCollection, t>> : t \in TreePool }
    \cup { <<ArgvBru, TreeNoMarker>>, <<ArgvSubdir, TreeCollide>>,
           <<ArgvPrefix, TreeCollide>>, <<ArgvBruName, TreeNoMarker>>,
           <<ArgvEnv, TreeOneFile>> }

\* process.env when the server starts
AmbientEnv == <<Prop(<<"P", "A", "T", "H">>, <<"/", "b">>)>>

Init ==
    /\ \E sc \in Scenarios : procArgv = sc[1] /\ fsTree = sc[2]
    /\ dirOrder = "asc"
    /\ dsResult = Pending
    /\ nmFiles = <<>>
    /\ nmResult = Pending
    /\ SanIdle
    /\ mainPc = "start"
    /\ mainConfig = Pending
    /\ mainPrefix = <<>>
    /\ srvTools = <<>>
    /\ toolsAtStart = <<>>
    /\ exitCode = 0
    /\ startError = Pending
    /\ calls = [c \in 1..MaxCalls |-> FreeCall]
    /\ lists = <<>>
    /\ procEnv = AmbientEnv
    /\ tmpFiles = {}
    /\ FnIdle

\* A plausible slip: the error is logged and the exit code left alone.
MainCatchLogOnly(err) == [pc |-> "failed", exitCode |-> 0, error |-> err]

\* main().catch(...): the error is printed and process.exitCode set
MainCatch(err) == [pc |-> "failed", exitCode |-> 1, error |-> err]

\* the statement `pc` of main threw err
Throws(err) ==
    /\ mainPc' = MainCatch(err).pc
    /\ exitCode' = MainCatch(err).exitCode
    /\ startError' = [ok |-> FALSE, code |-> MainCatch(err).error.code,
                      what |-> MainCatch(err).error.what]

Proceeds(pc) ==
    /\ mainPc' = pc
    /\ UNCHANGED <<exitCode, startError>>

\* const config = await parseAndValidateArgs(process.argv.slice(2))
MainParseArgs ==
    /\ mainPc = "start"
    /\ \E r \in {parseAndValidateArgs(fsTree, procArgv)} :
           IF r.ok THEN mainConfig' = r.value /\ Proceeds("prefix")
           ELSE UNCHANGED mainConfig /\ Throws(r)
    /\ UNCHANGED <<procArgv, mainPrefix, srvTools, toolsAtStart, calls, lists,
                   sanVars, nmVars, dsVars, osVars, fnVars>>

\* const prefix = derivePrefix(config.prefixArg, config.collectionRootAbs)
MainDerivePrefix ==
    /\ mainPc = "prefix"
    /\ \E r \in {derivePrefix(mainConfig.prefixArg, mainConfig.collectionRootAbs)} :
           IF r.ok
           THEN /\ mainPrefix' = r.value
                /\ Proceeds(IF mainConfig.mode = "single" THEN "single"
                            ELSE "discover")
           ELSE UNCHANGED mainPrefix /\ Throws(r)
    /\ UNCHANGED <<procArgv, mainConfig, srvTools, toolsAtStart, calls, lists,
                   sanVars, nmVars, dsVars, osVars, fnVars>>

\* const tools = await buildSingleToolMap({...})
MainBuildSingle ==
    /\ mainPc = "single"
    /\ \E r \in {buildSingleToolMap(mainConfig.bruFileAbs[1],
                                    mainConfig.collectionRootAbs, mainPrefix,
                                    mainConfig.nameArg)} :
           /\ nmResult' = r
           /\ nmFiles' = <<mainConfig.bruFileAbs[1]>>
           /\ IF r.ok THEN Proceeds("ready") ELSE Throws(r)
    /\ UNCHANGED <<procArgv, mainConfig, mainPrefix, srvTools, toolsAtStart,
                   calls, lists, sanVars, dsVars, osVars, fnVars>>

\* A plausible variant: the files that can become tools are counted.
AssertRequestsFound(bruFiles) ==
    IF \E i \in DOMAIN bruFiles : ~IsReservedName(bruFiles[i]) THEN Ok(bruFiles)
    ELSE Err("E_DISCOVERY", "no files")

\* assert(bruFiles.length > 0, 'E_DISCOVERY', 'No .bru files were found in
\* the collection path.')
AssertFilesFound(bruFiles) ==
    IF Len(bruFiles) > 0 THEN Ok(bruFiles) ELSE Err("E_DISCOVERY", "no files")

\* const bruFiles = await discoverBruFiles(config.collectionRootAbs), with
\* the directories listed in either order, and the assertion that some
\* file was found
MainDiscover ==
    /\ mainPc = "discover"
    /\ \E order \in {"asc", "desc"} :
          \E r \in {discoverBruFiles(fsTree, mainConfig.collectionRootAbs, order)} :
              /\ dsResult' = r
              /\ IF ~r.ok THEN Throws(r)
                 ELSE IF ~AssertFilesFound(r.value).ok
                 THEN Throws(AssertFilesFound(r.value))
                 ELSE Proceeds("naming")
    /\ UNCHANGED <<fsTree, dirOrder, procArgv, mainConfig, mainPrefix, srvTools,
                   toolsAtStart, calls, lists, sanVars, nmVars, osVars, fnVars>>

\* const tools = await buildCollectionToolMap({...})
MainBuildCollection ==
    /\ mainPc = "naming"
    /\ nmResult' = buildCollectionToolMap(dsResult.value,
                                       mainConfig.collectionRootAbs, mainPrefix)
    /\ nmFiles' = dsResult.value
    /\ IF nmResult'.ok THEN Proceeds("ready") ELSE Throws(nmResult')
    /\ UNCHANGED <<procArgv, mainConfig, mainPrefix, srvTools, toolsAtStart,
                   calls, lists, sanVars, dsVars, osVars, fnVars>>

\* await createAndRunMcpServer({ tools, ... }): the handlers are registered
\* and the transport connected
MainServe ==
    /\ mainPc = "ready"
    /\ srvTools' = nmResult.value
    /\ toolsAtStart' = nmResult.value
    /\ Proceeds("serving")
    /\ UNCHANGED <<procArgv, mainConfig, mainPrefix, calls, lists,
                   sanVars, nmVars, dsVars, osVars, fnVars>>

UnknownName == <<"n", "o">>

PayloadQ == Obj(<<Prop(VarsKey, Obj(<<Prop(<<"q">>, Str(<<"v">>))>>))>>)

PayloadQT ==
    Obj(<<Prop(VarsKey, Obj(<<Prop(<<"q">>, Str(<<"v">>)),
                              Prop(<<"t">>, Str(<<"w">>))>>))>>)

PayloadOtherKey == Obj(<<Prop(<<"x">>, Str(<<"v">>))>>)

PayloadEqualsKey ==
    Obj(<<Prop(VarsKey, Obj(<<Prop(<<"q">>, Str(<<"v">>)),
                              Prop(<<"t">>, Str(<<"w">>)),
                              Prop(<<"a", "=", "b">>, Str(<<"v">>))>>))>>)

PayloadPool == {Undefined, PayloadQ, PayloadQT, PayloadOtherKey, PayloadEqualsKey}

ReportOk ==
    Obj(<<Prop(ResultsKey,
               Arr(<<Obj(<<Prop(ResponseKey,
                                Obj(<<Prop(StatusKey, Num(200)),
                                      Prop(BodyKey, Str(<<"o", "k">>))>>))>>)>>))>>)

ReportNoStatus == Obj(<<Prop(ResultsKey, Arr(<<>>))>>)

\* twelve lines of error output
StderrLong ==
    <<"a", "\n", "b", "\n", "c", "\n", "d", "\n", "e", "\n", "f", "\n",
      "g", "\n", "h", "\n", "i", "\n", "j", "\n", "k", "\n", "l", "\n">>

\* how a child that was started may end: its exit code (None when a signal
\* ended it), what it wrote to stderr, and the report it wrote, if any
Ending(code, stderr, report) == [code |-> code, stderr |-> stderr, report |-> report]

ChildEndings ==
    {Ending(Some(0), <<>>, JsonOf(ReportOk)),
     Ending(Some(0), <<>>, NoReport),
     Ending(Some(1), StderrLong, JsonOf(ReportOk)),
     Ending(None, <<>>, NoReport)}

\* the other variables of a serving process, which no request changes
ServingFrame ==
    UNCHANGED <<procArgv, mainPc, mainConfig, mainPrefix, toolsAtStart, exitCode,
                startError, sanVars, nmVars, dsVars, fnVars>>

\* a list-tools request
ListTools ==
    /\ mainPc = "serving"
    /\ Len(lists) < MaxLists
    /\ lists' = Append(lists, ListedTools(srvTools))
    /\ UNCHANGED <<srvTools, calls, osVars>>
    /\ ServingFrame

\* a call-tool request arrives: the handler runs up to the spawn, or to
\* the error that stops it before
CallTool(c) ==
    /\ mainPc = "serving"
    /\ calls[c].st = "free"
    /\ \A b \in 1..(c - 1) : calls[b].st # "free"
    /\ \E name \in ToolNames(srvTools) \cup {UnknownName},
          payload \in PayloadPool, started \in BOOLEAN :
          \E prepared \in {CallPrepare(srvTools, mainConfig.envName, name,
                                       payload, c)} :
              /\ prepared.error # None => started
              /\ calls' = [calls EXCEPT ![c] =
                              IF prepared.error # None
                              THEN StoppedCall(name, payload, prepared)
                              ELSE SpawnedCall(name, payload, prepared, started,
                                               procEnv, ReportPathOf(c))]
              /\ srvTools' = MapAfterGet(srvTools, name)
              /\ procEnv' = IF prepared.error # None THEN procEnv
                            ELSE ProcessEnvAfter(procEnv, prepared.envMap)
    /\ UNCHANGED <<lists, tmpFiles>>
    /\ ServingFrame

SpawnError(c) ==
    /\ calls[c].child = "failing"
    /\ calls' = [calls EXCEPT ![c] = OnSpawnError(calls[c])]
    /\ UNCHANGED <<srvTools, lists, osVars>>
    /\ ServingFrame

TimerFire(c) ==
    /\ calls[c].timer = "armed"
    /\ calls[c].child \in {"running", "exited"}
    /\ calls' = [calls EXCEPT ![c] = OnTimeout(calls[c])]
    /\ UNCHANGED <<srvTools, lists, osVars>>
    /\ ServingFrame

KillTimerFire(c) ==
    /\ calls[c].killTimer = "armed"
    /\ calls' = [calls EXCEPT ![c] = OnKillTimer(calls[c])]
    /\ UNCHANGED <<srvTools, lists, osVars>>
    /\ ServingFrame

\* the child writes its report, if it writes one, and ends
ChildExit(c) ==
    /\ calls[c].child = "running"
    /\ \E e \in ChildEndings :
          /\ calls' = [calls EXCEPT ![c] = OnExit(calls[c], e.code, e.stderr,
                                                  e.report)]
          /\ tmpFiles' = IF e.report = NoReport THEN tmpFiles
                         ELSE WriteFile(tmpFiles, OutputPathOf(calls[c].args),
                                        e.report)
    /\ UNCHANGED <<srvTools, lists, procEnv>>
    /\ ServingFrame

ChildClose(c) ==
    /\ calls[c].child = "exited"
    /\ \E report \in {ReadFile(tmpFiles, calls[c].reportPath)} :
       \E after \in {AfterClose(calls[c].timedOut, calls[c].code,
                                calls[c].stderr, report,
                                mainConfig.bodyLimitBytes)} :
          calls' = [calls EXCEPT ![c] = OnClose(calls[c], report, after)]
    /\ UNCHANGED <<srvTools, lists, osVars>>
    /\ ServingFrame

Next ==
    \/ MainParseArgs
    \/ MainDerivePrefix
    \/ MainBuildSingle
    \/ MainDiscover
    \/ MainBuildCollection
    \/ MainServe
    \/ ListTools
    \/ \E c \in 1..MaxCalls : CallTool(c)
    \/ \E c \in 1..MaxCalls : SpawnError(c)
    \/ \E c \in 1..MaxCalls : TimerFire(c)
    \/ \E c \in 1..MaxCalls : KillTimerFire(c)
    \/ \E c \in 1..MaxCalls : ChildExit(c)
    \/ \E c \in 1..MaxCalls : ChildClose(c)

Spec == Init /\ [][Next]_vars

(***************************************************************************)
(* SpecLive: the serving process with its events delivered.  A timer that  *)
(* is set fires unless it is cleared, the 'error' event of a child that    *)
(* could not be started and the 'close' event of a child that has exited   *)
(* are delivered.  Nothing makes a child exit on its own.  The servers are *)
(* the two of LiveScenarios.                                               *)
(***************************************************************************)
\* ChildClose(c) is enabled exactly when the child of c has exited and is
\* the one step that leaves that state, so weak fairness of ChildClose(c) is
\* the recurrence below; it is stated in that form.
EventsDelivered ==
    \A c \in 1..MaxCalls :
        /\ WF_vars(SpawnError(c))
        /\ WF_vars(TimerFire(c))
        /\ WF_vars(KillTimerFire(c))
        /\ []<>(calls[c].child # "exited")

\* one server of each mode, each serving one tool
LiveScenarios == { <<ArgvBru, TreeGood>>, <<ArgvEnv, TreeOneFile>> }

LiveInit == Init /\ <<procArgv, fsTree>> \in LiveScenarios

SpecLive == LiveInit /\ [][Next]_vars /\ EventsDelivered

(***************************************************************************)
(* SpecValidate: validateVars, and the call-tool handler up to the spawn,  *)
(* applied to any payload of a bounded set of JSON values.                 *)
(***************************************************************************)
MaxVarsEntries == 2

JsonLeaves ==
    {Undefined, Null, Str(<<"v">>), Str(<<>>), Num(1), Bool(TRUE), Arr(<<>>),
     Arr(<<Str(<<"v">>)>>), Obj(<<>>)}

VarsKeyPool == {<<"q">>, <<"t">>, ProtoKey}

VarsValuePool == {Str(<<"v">>), Str(<<"w">>), Num(1), Null}

\* the objects of at most MaxVarsEntries properties with distinct keys
VarsObjects ==
    { Obj(props) : props \in
        { f \in UNION { [1..n -> { Prop(k, v) : k \in VarsKeyPool,
                                                v \in VarsValuePool }] :
                         n \in 0..MaxVarsEntries } :
            \A i, j \in DOMAIN f : i # j => f[i].k # f[j].k } }

ValidatePool ==
    JsonLeaves
    \cup { Obj(<<Prop(VarsKey, x)>>) : x \in JsonLeaves \cup VarsObjects }
    \cup { Obj(<<Prop(<<"x">>, x)>>) : x \in JsonLeaves }
    \cup { Obj(<<Prop(VarsKey, Obj(<<Prop(<<"q">>, Str(<<"v">>))>>)),
                 Prop(<<"x">>, x)>>) : x \in JsonLeaves }

\* a registry of one tool whose request has no template variable
ValidateTools == buildCollectionToolMap(<<FileA2>>, RootAbs, <<"r">>).value

ValidateInit ==
    /\ fnIn \in ValidatePool
    /\ fnOut = Pending
    /\ SanIdle
    /\ NamingIdle
    /\ DiscoverIdle
    /\ ServerIdle

\* validateVars(payload), and a call of the tool with this payload
ValidateOnce ==
    /\ fnOut = Pending
    /\ fnOut' = [returned |-> validateVars(fnIn),
                 prepared |-> CallPrepare(ValidateTools, None,
                                          ValidateTools[1].toolName, fnIn, 1)]
    /\ UNCHANGED <<fnIn, sanVars, nmVars, dsVars, srvVars, osVars>>

SpecValidate == ValidateInit /\ [][ValidateOnce]_vars

(***************************************************************************)
(* SpecVars: buildVarsPassThrough, and a call of a tool up to the spawn,   *)
(* applied to any vars object of at most MaxPassEntries string entries     *)
(* with keys of ASCII characters.                                          *)
(***************************************************************************)
MaxPassEntries == 2

PassKeyPool ==
    {<<"q">>, <<"Q">>, <<>>, <<"a", "=", "b">>, <<"-">>, <<"a", "-", "b">>,
     <<"a", "_", "b">>}

PassValuePool == {Str(<<"v">>), Str(<<"w">>)}

\* the payloads { vars: {...} } of at most MaxPassEntries entries with
\* distinct keys
PassPayloads ==
    { Obj(<<Prop(VarsKey, Obj(props))>>) : props \in
        { f \in UNION { [1..n -> { Prop(k, v) : k \in PassKeyPool,
                                                v \in PassValuePool }] :
                         n \in 0..MaxPassEntries } :
            \A i, j \in DOMAIN f : i # j => f[i].k # f[j].k } }

VarsInit ==
    /\ fnIn \in PassPayloads
    /\ fnOut = Pending
    /\ SanIdle
    /\ NamingIdle
    /\ DiscoverIdle
    /\ ServerIdle

\* buildVarsPassThrough(options.vars), and a call of the tool with this
\* payload
VarsOnce ==
    /\ fnOut = Pending
    /\ fnOut' = [pass |-> buildVarsPassThrough(validateVars(fnIn).value),
                 prepared |-> CallPrepare(ValidateTools, None,
                                          ValidateTools[1].toolName, fnIn, 1)]
    /\ UNCHANGED <<fnIn, sanVars, nmVars, dsVars, srvVars, osVars>>

SpecVars == VarsInit /\ [][VarsOnce]_vars

(***************************************************************************)
(* SpecReport: extractReportView, and the reading of the report after a    *)
(* child has closed, applied to any report of a bounded set: a root, at    *)
(* most one result and at most one response, each with any of a few        *)
(* values under statusCode and status.  A field whose value is Undefined   *)
(* is left out of the object.                                              *)
(***************************************************************************)
\* the properties that are present
Present(props) == SelectSeq(props, LAMBDA q : q.v.t # "undefined")

StatusProps(statusCode, status) ==
    Present(<<Prop(StatusCodeKey, statusCode), Prop(StatusKey, status)>>)

ResponseStatusPool ==
    { StatusProps(a, b) : a \in {Undefined, Null, Num(200)},
                          b \in {Undefined, Null, Num(201), Str(<<"x">>)} }

ResultStatusPool ==
    { StatusProps(a, b) : a \in {Undefined, Null, Num(300)},
                          b \in {Undefined, Null, Num(301), Str(<<"x">>)} }

RootStatusPool ==
    { StatusProps(a, b) : a \in {Undefined, Null, Num(400)},
                          b \in {Undefined, Null, Num(401), Str(<<"x">>),
                                 Str(<<"7">>), Str(<<>>), Bool(TRUE),
                                 Arr(<<>>)} }

ResultPool ==
    { Obj(q) : q \in ResultStatusPool }
    \cup { Obj(q \o <<Prop(ResponseKey, Obj(p))>>) :
              q \in ResultStatusPool, p \in ResponseStatusPool }

ReportPool ==
    { Obj(q) : q \in RootStatusPool }
    \cup { Obj(q \o <<Prop(ResultsKey, Arr(<<f>>))>>) :
              q \in RootStatusPool, f \in ResultPool }

ReportInit ==
    /\ fnIn \in ReportPool
    /\ fnOut = Pending
    /\ SanIdle
    /\ NamingIdle
    /\ DiscoverIdle
    /\ ServerIdle

\* JSON.parse(reportRaw), extractReportView(report) and formatToolOutput
ReportOnce ==
    /\ fnOut = Pending
    /\ fnOut' = [view |-> extractReportView(fnIn),
                 result |-> ReadAndFormat(JsonOf(fnIn), BodyLimitBytes)]
    /\ UNCHANGED <<fnIn, sanVars, nmVars, dsVars, srvVars, osVars>>

SpecReport == ReportInit /\ [][ReportOnce]_vars

(***************************************************************************)
(* SpecRegistry: buildCollectionToolMap on any list of at most             *)
(* MaxRegFiles files, and buildSingleToolMap on the first file of the      *)
(* list, for either of two roots and with or without a name override.      *)
(* The pool holds files inside and outside each root, the root itself, a   *)
(* file that cannot be named, one that cannot be read, and two files named *)
(* .bru.                                                                   *)
(***************************************************************************)
MaxRegFiles == 2

FileGone == RootAbs \o <<"/", "a", "/", "g">> \o DotBru            \* /r/a/g.bru

RegistryPool ==
    {FileA1, FileA2, FileB, FileOut, FileDash, FileGone, RootAbs, FileDot,
     FileADot}

RegistryRoots == {RootAbs, DirA}

NameOverrides == {None, Some(<<"g", "e", "t">>), Some(<<"G", "e", "t">>)}

RegistryInit ==
    /\ fnIn \in [files : StringsUpTo(RegistryPool, MaxRegFiles) \ {<<>>},
                  root : RegistryRoots,
                  nameOverride : NameOverrides]
    /\ fnOut = Pending
    /\ SanIdle
    /\ NamingIdle
    /\ DiscoverIdle
    /\ ServerIdle

\* buildCollectionToolMap({ bruFilesAbs, collectionRootAbs, prefix }) and
\* buildSingleToolMap({ bruFileAbs, collectionRootAbs, prefix, nameOverride })
RegistryOnce ==
    /\ fnOut = Pending
    /\ fnOut' = [collection |-> buildCollectionToolMap(fnIn.files, fnIn.root,
                                                       NamingPrefix),
                 single |-> buildSingleToolMap(fnIn.files[1], fnIn.root,
                                               NamingPrefix, fnIn.nameOverride)]
    /\ UNCHANGED <<fnIn, sanVars, nmVars, dsVars, srvVars, osVars>>

SpecRegistry == RegistryInit /\ [][RegistryOnce]_vars

(***************************************************************************)
(* SpecDocs: extractDocsFromBruContent applied to any text of at most      *)
(* MaxDocLines lines drawn from a pool of opening lines, closing lines and *)
(* text lines.                                                             *)
(***************************************************************************)
MaxDocLines == 3

DocLinePool ==
    {<<"d", "o", "c", "s", " ", "{">>,
     <<"d", "o", "c", "s", " ", "{", "}">>,
     <<"d", "o", "c", "s", " ", "{", " ", "h", "i", " ", "}">>,
     <<" ", "d", "o", "c", "s", " ", "{", " ", "h", "i">>,
     <<" ", "y", "o", " ">>,
     <<"}">>,
     <<"g", "e", "t", " ", "{">>,
     <<>>}

\* the texts of 1 to MaxDocLines lines, joined with line feeds
DocTexts ==
    { JoinWith(ls, <<"\n">>) : ls \in StringsUpTo(DocLinePool, MaxDocLines) \ {<<>>} }

DocsInit ==
    /\ fnIn \in DocTexts
    /\ fnOut = Pending
    /\ SanIdle
    /\ NamingIdle
    /\ DiscoverIdle
    /\ ServerIdle

\* extractDocsFromBruContent(content)
DocsOnce ==
    /\ fnOut = Pending
    /\ fnOut' = [docs |-> extractDocsFromBruContent(fnIn)]
    /\ UNCHANGED <<fnIn, sanVars, nmVars, dsVars, srvVars, osVars>>

SpecDocs == DocsInit /\ [][DocsOnce]_vars

(***************************************************************************)
(* SpecFormat: formatToolOutput applied to any short body and small cap.   *)
(***************************************************************************)
MaxBodyLen == 3

MaxBodyLimit == 4

\* one character of one, of two and of three bytes
BodyAlphabet == {"a", "U+00E9", "U+20AC"}

FormatInit ==
    /\ fnIn \in [bodyText : StringsUpTo(BodyAlphabet, MaxBodyLen),
                  bodyLimitBytes : 1..MaxBodyLimit]
    /\ fnOut = Pending
    /\ SanIdle
    /\ NamingIdle
    /\ DiscoverIdle
    /\ ServerIdle

\* formatToolOutput({ statusCode: 200, headers: {}, bodyText }, cap)
FormatOnce ==
    /\ fnOut = Pending
    /\ fnOut' = [text |-> formatToolOutput([statusCode |-> 200,
                                            headers |-> Obj(<<>>),
                                            bodyText |-> fnIn.bodyText],
                                           fnIn.bodyLimitBytes)]
    /\ UNCHANGED <<fnIn, sanVars, nmVars, dsVars, srvVars, osVars>>

SpecFormat == FormatInit /\ [][FormatOnce]_vars

(***************************************************************************)
(* Claims.                                                                 *)
(***************************************************************************)
NoDoubleUnderscore(s) ==
    \A i \in 1..(Len(s) - 1) : ~(s[i] = "_" /\ s[i + 1] = "_")

\* what buildCollectionToolMap does with one file taken alone
RelOf(fileAbs) == PathRelative(RootAbs, fileAbs)

Skipped(fileAbs) ==
    ~EscapesRoot(RelOf(fileAbs))
    /\ ToLowerCase(Basename(RelOf(fileAbs))) = CollectionBru

\* the file is not skipped and a tool identifier is derived from it
Derives(fileAbs) ==
    /\ ~EscapesRoot(RelOf(fileAbs))
    /\ ~Skipped(fileAbs)
    /\ buildToolNameFromRelativePath(NamingPrefix, RelOf(fileAbs)).ok

NameOf(fileAbs) == buildToolNameFromRelativePath(NamingPrefix, RelOf(fileAbs)).value

\* the file alone would be skipped or registered
Accepted(fileAbs) == Skipped(fileAbs) \/ (Derives(fileAbs) /\ Readable(fileAbs))

\* positions i < j of the list hold two different files deriving the same
\* identifier
Collide(files, i, j) ==
    /\ i < j
    /\ files[i] # files[j]
    /\ Derives(files[i]) /\ Derives(files[j])
    /\ NameOf(files[i]) = NameOf(files[j])

HasCollidingPair(files) == \E i, j \in DOMAIN files : Collide(files, i, j)

IsCollisionError(r) == ~r.ok /\ r.code = "E_NAMING" /\ r.what = "collision"

\* C1 as stated: any list holding two files that derive the same identifier
\* fails with the E_NAMING collision error.
C1_Original ==
    (nmResult # Pending /\ HasCollidingPair(nmFiles)) => IsCollisionError(nmResult)

\* C1, amended: any list holding two files that derive the same identifier
\* fails and returns no registry, in either order of the two; the error is
\* the E_NAMING collision error whenever every file listed before the second
\* file of the first colliding pair is acceptable on its own.
C1_CollisionFails ==
    (nmResult # Pending /\ HasCollidingPair(nmFiles)) =>
        /\ ~nmResult.ok
        /\ \A i, j \in DOMAIN nmFiles :
              (/\ Collide(nmFiles, i, j)
               /\ \A k \in 1..(j - 1) : Accepted(nmFiles[k])
               /\ \A k, l \in 1..(j - 1) : ~Collide(nmFiles, k, l))
              => IsCollisionError(nmResult)

\* the two colliding files in the order opposite to that of the test, with a
\* valid file between them: the build failed with the collision error
C1_Witness ==
    /\ nmFiles = <<FileA2, FileB, FileA1>>
    /\ nmResult # Pending
    /\ IsCollisionError(nmResult)

\* the directories between the root and the entry, outermost first
AncestorsOf(e) ==
    LET root == AbsParts(RootAbs)
        parts == AbsParts(e.parent)
    IN  [i \in 1..(Len(parts) - Len(root)) |->
            <<PathSep>> \o JoinWith(SubSeq(parts, 1, Len(root) + i), <<PathSep>>)]

\* the entry is a regular file named *.bru that is reached from the root
\* through real directories only, none of them named environments
Eligible(tree, e) ==
    /\ e \in tree
    /\ e.kind = "file"
    /\ EndsWith(e.name, DotBru)
    /\ \A i \in DOMAIN AncestorsOf(e) :
          \E d \in tree :
              /\ EntryAbs(d) = AncestorsOf(e)[i]
              /\ d.kind = "dir"
              /\ ToLowerCase(d.name) # Environments

StrictDescendant(rootAbs, p) ==
    LET r == AbsParts(rootAbs)
        q == AbsParts(p)
    IN  Len(q) > Len(r) /\ SubSeq(q, 1, Len(r)) = r

C10_SanitizeIdempotent ==
    /\ segStage >= 1 =>
          /\ \A i \in 1..Len(segOut) : segOut[i] \in LowerAlnum \cup {"_"}
          /\ segOut # <<>> => segOut[1] # "_" /\ segOut[Len(segOut)] # "_"
          /\ NoDoubleUnderscore(segOut)
    /\ segStage = 2 => segOut2 = segOut

\* an input with upper case, punctuation runs at both ends and inside, whose
\* sanitized form differs from it, has been sanitized twice
C10_Witness ==
    /\ segStage = 2
    /\ segIn = <<"-", "B", "_", "-">>
    /\ segOut = <<"b">>

(***************************************************************************)
(* Claims about the serving process (Spec).                                *)
(***************************************************************************)
Arrived(c) == calls[c].st # "free"

Returned(c) == calls[c].st = "done"

Outcome(c) == calls[c].result[1]

FailedWith(c, code) ==
    Returned(c) /\ Outcome(c).isError /\ Outcome(c).error.code = code

\* the template variables of the call's target that its vars do not supply
MissingOf(c) ==
    Range(calls[c].target[1].templateVars)
    \ ProvidedVars(validateVars(calls[c].payload).value)

\* the call reached runBrunoTool on a target that requires an environment,
\* without an environment name and without one of the template variables
LacksEnvironment(c) ==
    /\ Arrived(c)
    /\ calls[c].target # None
    /\ validateVars(calls[c].payload).ok
    /\ calls[c].target[1].requiresEnv
    /\ mainConfig.envName = None
    /\ MissingOf(c) # {}

\* C2: a call on a target that requires an environment, made without an
\* environment name and with vars that miss a template variable, fails with
\* E_ENV_REQUIRED naming exactly the missing variables, and never creates a
\* temporary directory or spawns a child.
C2_EnvRequiredBeforeSpawn ==
    \A c \in 1..MaxCalls :
        LacksEnvironment(c) =>
            /\ FailedWith(c, "E_ENV_REQUIRED")
            /\ Range(Outcome(c).error.missing) = MissingOf(c)
            /\ ~calls[c].spawned
            /\ ~calls[c].tmpDir
            /\ calls[c].child = "none"

\* some variables were supplied, one is missing
C2_Witness ==
    \E c \in 1..MaxCalls :
        /\ LacksEnvironment(c)
        /\ calls[c].callVars # None
        /\ FailedWith(c, "E_ENV_REQUIRED")
        /\ MissingOf(c) # Range(calls[c].target[1].templateVars)

C5_RegistryImmutable ==
    mainPc = "serving" =>
        /\ srvTools = toolsAtStart
        /\ \A i \in DOMAIN lists : lists[i] = ListedTools(toolsAtStart)
        /\ \A i, j \in DOMAIN lists : lists[i] = lists[j]

\* two list-tools responses around a call that timed out and one that
\* returned text
C5_Witness ==
    /\ Len(lists) = 2
    /\ toolsAtStart # <<>>
    /\ \E c \in 1..MaxCalls : FailedWith(c, "E_TIMEOUT")
    /\ \E c \in 1..MaxCalls : Returned(c) /\ ~Outcome(c).isError

\* C6: a call whose name is not in the registry returns E_TOOL_NOT_FOUND
\* with its arguments not validated and nothing spawned; a child is only
\* spawned for the registry entry the call names.
C6_UnknownToolStops ==
    \A c \in 1..MaxCalls :
        /\ (Arrived(c) /\ calls[c].name \notin ToolNames(toolsAtStart)) =>
               /\ FailedWith(c, "E_TOOL_NOT_FOUND")
               /\ ~calls[c].validated
               /\ ~calls[c].tmpDir
               /\ ~calls[c].spawned
        /\ calls[c].spawned =>
               /\ calls[c].target # None
               /\ calls[c].target[1] \in Range(toolsAtStart)
               /\ calls[c].target[1].toolName = calls[c].name

\* an unknown name with arguments validateVars would reject, next to a call
\* that did spawn
C6_Witness ==
    /\ \E c \in 1..MaxCalls :
          /\ calls[c].name = UnknownName
          /\ ~validateVars(calls[c].payload).ok
          /\ FailedWith(c, "E_TOOL_NOT_FOUND")
    /\ \E c \in 1..MaxCalls : calls[c].spawned

\* what the call must settle with, from its own request, its own child and
\* the server's parameters alone
SettledOf(c) ==
    LET prepared == CallPrepare(toolsAtStart, mainConfig.envName, calls[c].name,
                                calls[c].payload, c)
    IN  IF prepared.error # None THEN prepared.error[1]
        ELSE IF calls[c].child = "failed" THEN Err("E_RUNNER", "failed to spawn")
        ELSE AfterClose(calls[c].timedOut, calls[c].code, calls[c].stderr,
                        calls[c].report, mainConfig.bodyLimitBytes).result

\* C7: every returned call has a result and none was rejected; an error is
\* returned with isError = true and the message of the error raised; and
\* the result is what the call's own request and child determine, whatever
\* the other calls did.
C7_ErrorsReturned ==
    \A c \in 1..MaxCalls :
        Returned(c) =>
            /\ calls[c].result # None
            /\ ~Outcome(c).rejected
            /\ IF SettledOf(c).ok
               THEN Outcome(c) = TextResult(SettledOf(c).value)
               ELSE Outcome(c).isError /\ Outcome(c).error = SettledOf(c)

\* a call that returned text after an earlier call had failed in the runner
C7_Witness ==
    /\ FailedWith(1, "E_BRU_EXIT") \/ FailedWith(1, "E_RUNNER")
       \/ FailedWith(1, "E_REPORT")
    /\ Returned(2)
    /\ ~Outcome(2).isError

NoRequestServed ==
    /\ srvTools = <<>>
    /\ toolsAtStart = <<>>
    /\ lists = <<>>
    /\ \A c \in 1..MaxCalls : ~Arrived(c)

\* C8: a start-up that threw has set the exit code to 1 and serves nothing;
\* nothing is served before the server is started; and a serving server
\* holds the registry a successful parse, discovery and build produced.
C8_ServeOnlyAfterBuild ==
    /\ mainPc = "failed" => exitCode = 1 /\ ~startError.ok /\ NoRequestServed
    /\ mainPc # "serving" => NoRequestServed
    /\ mainPc = "serving" =>
          /\ startError = Pending
          /\ mainConfig # Pending
          /\ mainConfig.mode = "collection" => dsResult.ok /\ dsResult.value # <<>>
          /\ nmResult.ok
          /\ srvTools = nmResult.value

\* the second of two colliding files stopped the build after the first had
\* been registered
C8_Witness ==
    /\ mainPc = "failed"
    /\ dsResult # Pending
    /\ dsResult.ok
    /\ Len(dsResult.value) = 2
    /\ startError.code = "E_NAMING"
    /\ startError.what = "collision"

\* the payloads that carry no variables: no payload, or no vars in it
CarriesNoVars(p) ==
    \/ IsNullish(p)
    \/ p.t = "object" /\ p.props = <<>>
    \/ p.t = "object" /\ Len(p.props) = 1 /\ p.props[1].k = VarsKey
       /\ IsNullish(p.props[1].v)

\* the payloads whose only key is vars, a flat map of strings
CarriesStringMap(p) ==
    /\ p.t = "object" /\ Len(p.props) = 1 /\ p.props[1].k = VarsKey
    /\ p.props[1].v.t = "object"
    /\ \A i \in DOMAIN p.props[1].v.props : p.props[1].v.props[i].v.t = "string"

\* the map a payload carries, as the key/value pairs validateVars returns
StringMapOf(p) ==
    [i \in DOMAIN p.props[1].v.props |->
        Prop(p.props[1].v.props[i].k, p.props[1].v.props[i].v.s)]

\* the call of the handler stopped with E_INPUT and spawned nothing
RefusedAsInput(prepared) ==
    /\ prepared.error # None
    /\ prepared.error[1].code = "E_INPUT"
    /\ CatchError(prepared.error[1]).isError
    /\ prepared.args = <<>>
    /\ ~prepared.tmpDir

\* C11, as stated: validateVars returns no variables for an absent or null
\* payload or vars, returns the same mapping for a payload whose only key
\* is vars with a flat map of strings, and fails with E_INPUT on every other
\* payload, which the handler returns as an error without spawning.
C11_Original ==
    fnOut # Pending /\ fnIn \in ValidatePool =>
        IF CarriesNoVars(fnIn) THEN fnOut.returned = Ok(None)
        ELSE IF CarriesStringMap(fnIn)
        THEN fnOut.returned = Ok(Some(StringMapOf(fnIn)))
        ELSE /\ ~fnOut.returned.ok
             /\ fnOut.returned.code = "E_INPUT"
             /\ RefusedAsInput(fnOut.prepared)

\* C11, as the code has it: the same, except that the mapping returned
\* lacks the key __proto__ when the payload's map has it.
C11_ValidateVars ==
    fnOut # Pending /\ fnIn \in ValidatePool =>
        IF CarriesNoVars(fnIn) THEN fnOut.returned = Ok(None)
        ELSE IF CarriesStringMap(fnIn)
        THEN fnOut.returned =
                 Ok(Some(SelectSeq(StringMapOf(fnIn), LAMBDA e : e.k # ProtoKey)))
        ELSE /\ ~fnOut.returned.ok
             /\ fnOut.returned.code = "E_INPUT"
             /\ RefusedAsInput(fnOut.prepared)

\* a map of two strings has been validated and returned
C11_Witness ==
    /\ fnOut # Pending /\ fnIn \in ValidatePool
    /\ CarriesStringMap(fnIn)
    /\ Len(StringMapOf(fnIn)) = 2
    /\ fnOut.returned = Ok(Some(StringMapOf(fnIn)))
    /\ fnOut.prepared.error = None

\* what formatToolOutput emits after "Body:\n" for status 200 and no header
EmittedBody(text) ==
    LET before == StatusLabel \o NumText(200) \o HeadersLabel
                  \o Stringify(Obj(<<>>), 0) \o BodyLabel
    IN  SubSeq(text, Len(before) + 1, Len(text))

\* the part of an emitted body that precedes the truncation marker
BeforeMarker(emitted, cap) ==
    SubSeq(emitted, 1, Len(emitted) - Len(TruncatedLabel(cap)))

EndsWithMarker(emitted, cap) ==
    /\ Len(emitted) >= Len(TruncatedLabel(cap))
    /\ SubSeq(emitted, Len(emitted) - Len(TruncatedLabel(cap)) + 1, Len(emitted))
           = TruncatedLabel(cap)

\* C12, as stated: a body within the cap is emitted unchanged; a longer one
\* is emitted as exactly its first cap bytes followed by the marker, so no
\* more than cap bytes precede the marker, also when the cut falls inside a
\* multi-byte character.
C12_Original ==
    fnOut # Pending /\ "text" \in DOMAIN fnOut =>
        LET body == fnIn.bodyText
            cap == fnIn.bodyLimitBytes
            emitted == EmittedBody(fnOut.text)
        IN  IF ByteLength(body) <= cap THEN emitted = body
            ELSE /\ EndsWithMarker(emitted, cap)
                 /\ Utf8Encode(BeforeMarker(emitted, cap))
                        = SubSeq(Utf8Encode(body), 1, cap)
                 /\ ByteLength(BeforeMarker(emitted, cap)) <= cap

\* the characters of s that lie whole within its first n bytes
RECURSIVE WholeWithin(_, _)
WholeWithin(s, n) ==
    IF s = <<>> \/ ByteLen(Head(s)) > n THEN <<>>
    ELSE <<Head(s)>> \o WholeWithin(Tail(s), n - ByteLen(Head(s)))

\* C12, as the code has it: a body within the cap is emitted unchanged; a
\* longer one is emitted as the characters that lie whole within its first
\* cap bytes, then one U+FFFD if the cut falls inside a character, then the
\* marker; what precedes the marker is within the cap only when the cut
\* falls between two characters.
C12_Truncation ==
    fnOut # Pending /\ "text" \in DOMAIN fnOut =>
        LET body == fnIn.bodyText
            cap == fnIn.bodyLimitBytes
            emitted == EmittedBody(fnOut.text)
            whole == WholeWithin(body, cap)
        IN  IF ByteLength(body) <= cap THEN emitted = body
            ELSE /\ EndsWithMarker(emitted, cap)
                 /\ BeforeMarker(emitted, cap) =
                        IF ByteLength(whole) = cap THEN whole
                        ELSE whole \o <<ReplacementChar>>
                 /\ ByteLength(BeforeMarker(emitted, cap)) <= cap + 2

\* a body has been cut inside a multi-byte character
C12_Witness ==
    /\ fnOut # Pending /\ "text" \in DOMAIN fnOut
    /\ ByteLength(fnIn.bodyText) > fnIn.bodyLimitBytes
    /\ ByteLength(WholeWithin(fnIn.bodyText, fnIn.bodyLimitBytes))
           < fnIn.bodyLimitBytes
    /\ EndsWithMarker(EmittedBody(fnOut.text), fnIn.bodyLimitBytes)

\* C13, as stated: the description of every listed tool is the docs text of
\* its request when it has some, else "Execute Bruno request: " and the
\* logical path.
C13_Original ==
    \A n \in DOMAIN lists : \A i \in DOMAIN lists[n] :
        LET target == Lookup(toolsAtStart, lists[n][i].name)[1]
        IN  lists[n][i].description =
                IF target.docs # None THEN target.docs[1]
                ELSE ExecutePrefix \o target.requestPathNoExt

\* C13, as the code has it: every list-tools response names every tool of
\* the registry, and the description of each is "Execute Bruno request: "
\* and the logical path, whether or not the request has docs.
C13_GenericDescription ==
    \A n \in DOMAIN lists :
        /\ Len(lists[n]) = Len(toolsAtStart)
        /\ \A i \in DOMAIN lists[n] :
              /\ lists[n][i].name = toolsAtStart[i].toolName
              /\ lists[n][i].description =
                     ExecutePrefix \o toolsAtStart[i].requestPathNoExt

\* a tool whose request has docs, and one whose request has none, listed
C13_Witness ==
    /\ lists # <<>>
    /\ \E i, j \in DOMAIN lists[1] :
          /\ Lookup(toolsAtStart, lists[1][i].name)[1].docs # None
          /\ Lookup(toolsAtStart, lists[1][j].name)[1].docs = None

\* the base name of the file is collection.bru, in any case
HasReservedName(fileAbs) == ToLowerCase(Basename(fileAbs)) = CollectionBru

WithoutReserved(files) == SelectSeq(files, LAMBDA f : ~HasReservedName(f))

WithoutSkipped(files) == SelectSeq(files, LAMBDA f : ~Skipped(f))

RegisteredFiles(r) == { r.value[i].bruFileAbs : i \in DOMAIN r.value }

\* C14, as stated: a file named collection.bru (in any case, at any depth) is
\* never registered and causes neither an error nor a collision, so the
\* build settles as it does without such files; on success every other file
\* is registered and the registry has as many tools as there are input
\* files that are not skipped.
C14_Original ==
    nmResult # Pending =>
        LET without == buildCollectionToolMap(WithoutReserved(nmFiles), RootAbs,
                                              NamingPrefix)
        IN  /\ nmResult.ok = without.ok
            /\ ~nmResult.ok => nmResult.code = without.code
            /\ nmResult.ok =>
                  /\ RegisteredFiles(nmResult) = Range(WithoutReserved(nmFiles))
                  /\ Len(nmResult.value) = Len(WithoutReserved(nmFiles))

\* C14, amended: a file inside the collection root named collection.bru (in
\* any case, at any depth) is never registered, is never read, and causes
\* neither an error nor a collision: the build settles exactly as it does
\* without such files; on success every other input file is registered and
\* the registry has as many tools as there are input files that are not
\* skipped.  No file named collection.bru is registered, inside or outside
\* the root.
C14_ReservedSkipped ==
    nmResult # Pending =>
        /\ nmResult = buildCollectionToolMap(WithoutSkipped(nmFiles), RootAbs,
                                             NamingPrefix)
        /\ \A i \in DOMAIN nmFiles :
              Skipped(nmFiles[i]) => nmFiles[i] \notin Range(nmResult.reads)
        /\ nmResult.ok =>
              /\ RegisteredFiles(nmResult) = Range(WithoutSkipped(nmFiles))
              /\ Len(nmResult.value) = Len(WithoutSkipped(nmFiles))
              /\ \A f \in RegisteredFiles(nmResult) : ~HasReservedName(f)

\* two reserved files, one of them unreadable, around a request file: the
\* build succeeded with one tool
C14_Witness ==
    /\ nmFiles = <<FileColl, FileB, FileCollUpper>>
    /\ nmResult # Pending
    /\ nmResult.ok
    /\ Len(nmResult.value) = 1

\* runBrunoTool has been called for the call: its tool was found and its
\* arguments were valid
ReachedRunner(c) ==
    /\ Arrived(c)
    /\ calls[c].target # None
    /\ validateVars(calls[c].payload).ok

\* C15, as stated: runBrunoTool fails with E_ENV_REQUIRED exactly when the
\* target requires an environment, no environment name is configured and
\* some template variable is not a key of vars; in every other case the
\* call spawns the runner.
C15_Original ==
    \A c \in 1..MaxCalls :
        ReachedRunner(c) =>
            /\ FailedWith(c, "E_ENV_REQUIRED") <=> LacksEnvironment(c)
            /\ ~LacksEnvironment(c) => calls[c].spawned

\* C15, amended: runBrunoTool fails with E_ENV_REQUIRED exactly when the
\* target requires an environment, no environment name is configured and
\* some template variable is not a key of vars; in every other case the
\* call passes that test, creates its temporary directory, and spawns the
\* runner unless buildVarsPassThrough rejects a key of vars, when it fails
\* with E_VARS instead.
C15_EnvRequiredIff ==
    \A c \in 1..MaxCalls :
        ReachedRunner(c) =>
            /\ FailedWith(c, "E_ENV_REQUIRED") <=> LacksEnvironment(c)
            /\ ~LacksEnvironment(c) =>
                  /\ calls[c].tmpDir
                  /\ calls[c].spawned
                         <=> buildVarsPassThrough(calls[c].callVars).ok
                  /\ ~calls[c].spawned => FailedWith(c, "E_VARS")

\* without an environment, a call that supplies every template variable of
\* its target through vars has spawned the runner, and one that misses a
\* variable has failed
C15_Witness ==
    /\ mainPc = "serving"
    /\ mainConfig.envName = None
    /\ \E c \in 1..MaxCalls :
          /\ ReachedRunner(c)
          /\ calls[c].target[1].requiresEnv
          /\ MissingOf(c) = {}
          /\ calls[c].spawned
    /\ \E c \in 1..MaxCalls : FailedWith(c, "E_ENV_REQUIRED")

\* a call whose runner was spawned and has not returned yet
InFlight(c) == calls[c].spawned /\ ~Returned(c)

\* the calls keep their reports apart: the paths of two spawned calls are
\* distinct, the path a child is told to write is the path its call reads,
\* and a report that was read is the one the call's own child wrote
ReportsApart ==
    \A c \in 1..MaxCalls :
        calls[c].spawned =>
            /\ OutputPathOf(calls[c].args) = calls[c].reportPath
            /\ \A b \in 1..MaxCalls \ {c} :
                  calls[b].spawned => calls[b].reportPath # calls[c].reportPath
            /\ calls[c].reportRead => calls[c].report = calls[c].wrote

\* a returned call settled with what its own flag, exit code, error output
\* and report make of lines 393-422
OwnOutcome ==
    \A c \in 1..MaxCalls :
        (Returned(c) /\ calls[c].child = "closed") =>
            Outcome(c) = HandlerResult(
                AfterClose(calls[c].timedOut, calls[c].code, calls[c].stderr,
                           IF calls[c].reportRead THEN calls[c].wrote
                           ELSE NoReport,
                           mainConfig.bodyLimitBytes).result)

\* one step, whichever event it is, changes the record of one call at most:
\* the timers, the signals sent to the child and the result of every other
\* call stay as they were
OneCallPerStep ==
    \A c \in 1..MaxCalls :
        calls'[c] # calls[c] =>
            \A b \in 1..MaxCalls \ {c} : calls'[b] = calls[b]

\* C16: for any two calls in flight together, in every interleaving of
\* their spawn, timer, exit and close events, the report paths are distinct,
\* each call reads only the report of its own child, each call has its own
\* timer, and a timer that fires in one call signals that call's child
\* only and leaves the record and the outcome of the other call as they
\* were.
C16_CallsIsolated ==
    /\ [](ReportsApart /\ OwnOutcome)
    /\ [][OneCallPerStep]_vars

\* one call timed out, its child was sent SIGTERM and is still running,
\* while a later call next to it read its own report and returned text with
\* no signal sent to its child
C16_Witness ==
    \E c \in 1..MaxCalls : \E b \in 1..MaxCalls \ {c} :
        /\ InFlight(c)
        /\ calls[c].timedOut
        /\ calls[c].signals = <<"SIGTERM">>
        /\ calls[c].child = "running"
        /\ Returned(b)
        /\ calls[b].reportRead
        /\ calls[b].wrote # NoReport
        /\ ~Outcome(b).isError
        /\ calls[b].signals = <<>>

\* what buildVarsPassThrough makes of the call's own vars
OwnPass(c) == buildVarsPassThrough(validateVars(calls[c].payload).value).value

\* the values that follow --env-var in an argument list
EnvVarValues(args) ==
    { args[i + 1] : i \in { j \in DOMAIN args : args[j] = ArgEnvVar } }

\* the MCP_VAR_* entries of an environment
McpEntries(env) ==
    { e \in Range(env) :
        /\ Len(e.k) >= Len(McpVarPrefix)
        /\ SubSeq(e.k, 1, Len(McpVarPrefix)) = McpVarPrefix }

\* C17: the argument list of a spawned child is the one its own target, the
\* configured environment name, its own vars and its own report path give,
\* and its environment is the ambient environment overlaid with the
\* MCP_VAR_* entries of its own vars: no --env-var argument and no MCP_VAR_*
\* entry comes from the vars of another call, earlier, later or concurrent;
\* and process.env of the server stays what it was at start.
C17_OwnVarsOnly ==
    /\ procEnv = AmbientEnv
    /\ \A c \in 1..MaxCalls :
          calls[c].spawned =>
              /\ calls[c].args = SpawnArgs(calls[c].target[1], mainConfig.envName,
                                           OwnPass(c).envVarArgs,
                                           ReportPathOf(c))
              /\ calls[c].env = MergeEnv(AmbientEnv, OwnPass(c).envMap)
              /\ EnvVarValues(calls[c].args) = EnvVarValues(OwnPass(c).envVarArgs)
              /\ McpEntries(calls[c].env) = Range(OwnPass(c).envMap)

\* a call with vars {q, t} has spawned its child, and a later call without
\* vars spawned with no --env-var argument and no MCP_VAR_* entry
C17_Witness ==
    \E b \in 1..MaxCalls : \E c \in 1..MaxCalls :
        /\ b < c
        /\ calls[b].spawned
        /\ calls[b].payload = PayloadQT
        /\ Cardinality(McpEntries(calls[b].env)) = 2
        /\ Cardinality(EnvVarValues(calls[b].args)) = 2
        /\ calls[c].spawned
        /\ calls[c].payload = Undefined
        /\ McpEntries(calls[c].env) = {}
        /\ EnvVarValues(calls[c].args) = {}
        /\ calls[c].env = AmbientEnv

\* the directory p and every directory above it
RECURSIVE SelfAndParents(_)
SelfAndParents(p) ==
    IF Dirname(p) = p THEN {p} ELSE {p} \cup SelfAndParents(Dirname(p))

\* the command line asks for collection mode and its path resolves to a
\* readable directory
CollectionAsked ==
    /\ parseRawArgs(procArgv).ok
    /\ parseRawArgs(procArgv).value.collection # None
    /\ parseRawArgs(procArgv).value.bru = None
    /\ resolveReadablePath(fsTree, parseRawArgs(procArgv).value.collection[1],
                           "dir").ok

\* the directory the command line names, resolved
CollectionGiven ==
    resolveReadablePath(fsTree, parseRawArgs(procArgv).value.collection[1],
                        "dir").value

ParsedOk == mainPc # "start" /\ mainConfig # Pending

ParseFailed == mainPc = "failed" /\ mainConfig = Pending

\* C18, as stated: in collection mode parseAndValidateArgs succeeds only
\* when bruno.json is a file of the given directory itself, and a directory
\* without its own bruno.json is rejected with E_ARGS.
C18_Original ==
    (mainPc # "start" /\ CollectionAsked) =>
        /\ ParsedOk => HasMarker(fsTree, CollectionGiven)
        /\ ~HasMarker(fsTree, CollectionGiven) =>
               ParseFailed /\ startError.code = "E_ARGS"

\* C18, as the code has it: in collection mode parseAndValidateArgs
\* succeeds exactly when bruno.json is a file of the given directory or of
\* one of the directories above it, and the configured root is the given
\* directory either way; with no bruno.json in any of them the command line
\* is rejected with E_ARGS.
C18_MarkerHereOrAbove ==
    (mainPc # "start" /\ CollectionAsked) =>
        /\ ParsedOk <=> \E d \in SelfAndParents(CollectionGiven) :
                            HasMarker(fsTree, d)
        /\ ParsedOk => /\ mainConfig.mode = "collection"
                       /\ mainConfig.collectionRootAbs = CollectionGiven
        /\ ~ParsedOk => ParseFailed /\ startError.code = "E_ARGS"

\* a collection directory without bruno.json, below a directory that has
\* one, was accepted as the collection root
C18_Witness ==
    /\ mainPc # "start"
    /\ CollectionAsked
    /\ ParsedOk
    /\ ~HasMarker(fsTree, CollectionGiven)
    /\ HasMarker(fsTree, Dirname(CollectionGiven))
    /\ mainConfig.collectionRootAbs = CollectionGiven

\* the call returned after its child closed with the timeout not fired
ClosedInTime(c) ==
    Returned(c) /\ calls[c].child = "closed" /\ ~calls[c].timedOut

\* the lines of the captured error output, trimmed
StderrLinesOf(c) == SplitOn(Trim(calls[c].stderr), "\n")

\* the last lines of the error output, StderrTailLines of them at most,
\* joined again
LastLinesOf(c) ==
    LET lines == StderrLinesOf(c)
        first == IF Len(lines) > StderrTailLines
                 THEN Len(lines) - StderrTailLines + 1 ELSE 1
    IN  JoinWith([i \in 1..(Len(lines) - first + 1) |-> lines[first + i - 1]],
                 <<"\n">>)

\* C19: when the child closes before the timeout fires, the call reads the
\* report and returns what the report gives if and only if the exit code
\* is 0; with any other exit code, or none because a signal ended the
\* child, it fails with E_BRU_EXIT, the error carries the exit code and the
\* last lines (10 at most) of the error output, or 'No stderr output.' when
\* there is none, and the report file is not read.
C19_OnlyZeroSucceeds ==
    \A c \in 1..MaxCalls :
        ClosedInTime(c) =>
            IF calls[c].code = Some(0)
            THEN /\ calls[c].reportRead
                 /\ ~FailedWith(c, "E_BRU_EXIT")
                 /\ Outcome(c) = HandlerResult(
                        ReadAndFormat(calls[c].report, mainConfig.bodyLimitBytes))
            ELSE /\ FailedWith(c, "E_BRU_EXIT")
                 /\ ~calls[c].reportRead
                 /\ Outcome(c).error.exit = calls[c].code
                 /\ Len(StderrLinesOf(c)) > StderrTailLines =>
                        Len(SplitOn(Outcome(c).error.detail, "\n"))
                            = StderrTailLines
                 /\ Outcome(c).error.detail =
                        IF Trim(calls[c].stderr) = <<>> THEN NoStderrText
                        ELSE LastLinesOf(c)

\* a child ended by a signal, with no exit code and no error output, and a
\* child that exited with code 1 after writing a report and twelve lines of
\* error output: both calls failed with E_BRU_EXIT without reading the
\* report, the second with the last ten lines
C19_Witness ==
    \E b \in 1..MaxCalls : \E c \in 1..MaxCalls :
        /\ ClosedInTime(b)
        /\ calls[b].code = None
        /\ FailedWith(b, "E_BRU_EXIT")
        /\ Outcome(b).error.detail = NoStderrText
        /\ ClosedInTime(c)
        /\ calls[c].code = Some(1)
        /\ calls[c].wrote # NoReport
        /\ ~calls[c].reportRead
        /\ FailedWith(c, "E_BRU_EXIT")
        /\ Len(StderrLinesOf(c)) = 12
        /\ Outcome(c).error.detail =
               <<"c", "\n", "d", "\n", "e", "\n", "f", "\n", "g", "\n",
                 "h", "\n", "i", "\n", "j", "\n", "k", "\n", "l">>

\* the timeout callback of call c runs in this step
TimerExpires(c) == calls[c].timer = "armed" /\ calls'[c].timer = "fired"

\* the kill timer of call c runs in this step
GraceExpires(c) == calls[c].killTimer = "armed" /\ calls'[c].killTimer = "fired"

\* the signals a child can have been sent, and what a SIGKILL presupposes
SignalsInOrder ==
    \A c \in 1..MaxCalls :
        /\ calls[c].signals \in {<<>>, <<"SIGTERM">>, <<"SIGTERM", "SIGKILL">>}
        /\ calls[c].killTimer # "none" =>
               calls[c].timedOut /\ calls[c].killAfterMs = KillGraceMs
        /\ calls[c].signals = <<"SIGTERM", "SIGKILL">> =>
               /\ calls[c].timer = "fired"
               /\ calls[c].killTimer = "fired"

\* when each signal is sent
SignalSteps ==
    \A c \in 1..MaxCalls :
        /\ TimerExpires(c) =>
               /\ calls'[c].killTimer = "armed"
               /\ calls[c].killTimer = "none"
               /\ calls'[c].signals =
                      IF calls[c].child = "running" THEN <<"SIGTERM">> ELSE <<>>
        /\ GraceExpires(c) =>
               calls'[c].signals =
                   IF calls[c].child = "running"
                   THEN <<"SIGTERM", "SIGKILL">> ELSE calls[c].signals
        /\ calls'[c].signals # calls[c].signals =>
               TimerExpires(c) \/ GraceExpires(c)
        /\ calls'[c].killTimer # calls[c].killTimer =>
               TimerExpires(c) \/ GraceExpires(c)

\* C20: when the timeout fires, SIGTERM is sent in that very step and
\* before anything else, and the kill timer is set to KillGraceMs; SIGKILL
\* is sent only when the kill timer fires, which is a later step, and only
\* to a child still running then; so SIGKILL always follows a SIGTERM, and
\* a child that exited before the kill timer fired is sent no SIGKILL.
C20_TermThenKill ==
    /\ []SignalsInOrder
    /\ [][SignalSteps]_vars

\* one child outlived the grace window and was sent SIGTERM, then SIGKILL;
\* another exited within it, and its kill timer fired without a signal
C20_Witness ==
    \E b \in 1..MaxCalls : \E c \in 1..MaxCalls :
        /\ calls[b].signals = <<"SIGTERM", "SIGKILL">>
        /\ calls[b].code = None
        /\ calls[c].timedOut
        /\ calls[c].killTimer = "fired"
        /\ calls[c].signals = <<"SIGTERM">>
        /\ calls[c].child \in {"exited", "closed"}

\* the entries of the vars object handed to buildVarsPassThrough
PassEntries == validateVars(fnIn).value[1]

PassKeys == { PassEntries[i].k : i \in DOMAIN PassEntries }

\* two distinct keys normalize to the same MCP_VAR_* name
KeysCollide ==
    \E k1 \in PassKeys : \E k2 \in PassKeys \ {k1} :
        sanitizeEnvVarName(k1) = sanitizeEnvVarName(k2)

\* the call failed with E_VARS and spawned nothing
FailsWithVars ==
    /\ ~fnOut.pass.ok
    /\ fnOut.pass.code = "E_VARS"
    /\ fnOut.prepared.error # None
    /\ fnOut.prepared.error[1].code = "E_VARS"
    /\ fnOut.prepared.args = <<>>

\* every variable is one --env-var key=value pair, in the order supplied,
\* and one MCP_VAR_<name> entry with the same value
ExposesAll ==
    /\ fnOut.pass.ok
    /\ fnOut.prepared.error = None
    /\ Len(fnOut.pass.value.envVarArgs) = 2 * Len(PassEntries)
    /\ Len(fnOut.pass.value.envMap) = Len(PassEntries)
    /\ \A i \in DOMAIN PassEntries :
          /\ fnOut.pass.value.envVarArgs[2 * i - 1] = ArgEnvVar
          /\ fnOut.pass.value.envVarArgs[2 * i] =
                 PassEntries[i].k \o <<"=">> \o PassEntries[i].v
          /\ fnOut.pass.value.envMap[i] =
                 Prop(McpVarPrefix \o sanitizeEnvVarName(PassEntries[i].k),
                      PassEntries[i].v)
    /\ \A i \in DOMAIN fnOut.prepared.envMap :
          fnOut.prepared.envMap[i] = fnOut.pass.value.envMap[i]
    /\ EnvVarValues(fnOut.prepared.args)
           = { PassEntries[i].k \o <<"=">> \o PassEntries[i].v :
                  i \in DOMAIN PassEntries }

\* C21, as stated: the call fails with E_VARS, before any spawn, when a key
\* is empty or contains '=' or two distinct keys normalize to the same
\* name; otherwise every variable is exposed as an --env-var pair and as an
\* MCP_VAR_* entry.
C21_Original ==
    fnOut # Pending =>
        IF (\E k \in PassKeys : k = <<>> \/ "=" \in Range(k)) \/ KeysCollide
        THEN FailsWithVars
        ELSE ExposesAll

\* C21, amended: the call fails with E_VARS, before any spawn, when a key
\* is empty, contains '=', normalizes to an empty name (no letter or digit
\* in it), or two distinct keys normalize to the same name; otherwise every
\* variable is exposed as one --env-var key=value pair and as one
\* MCP_VAR_<uppercased sanitized key> entry with the same value.
C21_VarsPassThrough ==
    fnOut # Pending =>
        IF \/ \E k \in PassKeys :
                 k = <<>> \/ "=" \in Range(k) \/ sanitizeEnvVarName(k) = <<>>
           \/ KeysCollide
        THEN FailsWithVars
        ELSE ExposesAll

\* the keys a-b and a_b collide, and the keys q and a-b are both exposed
C21_Witness ==
    /\ fnOut # Pending
    /\ \/ /\ PassKeys = {<<"a", "-", "b">>, <<"a", "_", "b">>}
          /\ FailsWithVars
          /\ fnOut.pass.what = "key collision"
       \/ /\ PassKeys = {<<"q">>, <<"a", "-", "b">>}
          /\ ExposesAll
          /\ \E i \in 1..2 : fnOut.pass.value.envMap[i].k
                                 = McpVarPrefix \o <<"A", "_", "B">>

\* the parts of the report read: its root, its first result and the
\* response of that result (Undefined when there is none)
RootOf == fnIn

FirstOf ==
    IF Field(fnIn, ResultsKey).t = "array"
    THEN Field(fnIn, ResultsKey).items[1] ELSE Undefined

ResponseOf == IF FirstOf.t = "object" THEN Field(FirstOf, ResponseKey) ELSE Undefined

\* v.statusCode and v.status of a part, Undefined when absent
StatusPair(v) == <<Field(v, StatusCodeKey), Field(v, StatusKey)>>

\* the values of the status fields present in the report
StatusFields ==
    { v \in Range(StatusPair(RootOf)) \cup Range(StatusPair(FirstOf))
            \cup Range(StatusPair(ResponseOf)) : v.t # "undefined" }

\* a number, or a string of digits
IsNumericStatus(v) ==
    \/ v.t = "number"
    \/ v.t = "string" /\ v.s # <<>> /\ \A i \in DOMAIN v.s : v.s[i] \in Digits

\* a ?? b ?? ... of a non-empty sequence
RECURSIVE FirstNonNullish(_)
FirstNonNullish(vs) ==
    IF Len(vs) = 1 \/ ~IsNullish(Head(vs)) THEN Head(vs)
    ELSE FirstNonNullish(Tail(vs))

ReturnsText == fnOut.result.ok

FailsWithReport == ~fnOut.result.ok /\ fnOut.result.code = "E_REPORT"

StatusReported == fnOut.view.value.statusCode

\* C22, as stated: whenever text is returned the status is the number held
\* by a status field present in the report, and a report in which no status
\* field holds a numeric status fails with E_REPORT.
C22_Original ==
    fnOut # Pending =>
        /\ ReturnsText =>
               \E v \in StatusFields :
                   IsNumericStatus(v) /\ ToNumber(v).n = StatusReported
        /\ (\A v \in StatusFields : ~IsNumericStatus(v)) => FailsWithReport

\* C22, as the code has it: the status candidate is the first of the
\* status fields consulted that is neither null nor absent, or the last one
\* consulted when all are; text is returned exactly when Number(candidate)
\* is finite, and the status reported is that number, which is 0 for null,
\* for '' and for [], and 1 for true, none of them a status of the report.
C22_StatusIsNumberOfCandidate ==
    fnOut # Pending =>
        LET source == IF ResponseOf.t = "object" THEN ResponseOf
                      ELSE IF FirstOf.t = "object" THEN FirstOf ELSE Obj(<<>>)
            candidate == FirstNonNullish(StatusPair(source) \o StatusPair(RootOf))
        IN  /\ ReturnsText <=> (candidate.t # "undefined"
                                /\ ToNumber(candidate).finite)
            /\ ~ReturnsText => FailsWithReport
            /\ ReturnsText =>
                   /\ StatusReported = ToNumber(candidate).n
                   /\ SubSeq(fnOut.result.value, 1,
                             Len(StatusLabel \o NumText(StatusReported)))
                          = StatusLabel \o NumText(StatusReported)

\* a report whose only status field is null was answered with status 0
C22_Witness ==
    /\ fnOut # Pending
    /\ StatusFields = {Null}
    /\ ReturnsText
    /\ StatusReported = 0

\* the response is there and holds no status (absent or null fields only)
ResponseWithoutStatus ==
    /\ ResponseOf.t = "object"
    /\ \A v \in Range(StatusPair(ResponseOf)) : IsNullish(v)

\* the first number among the given fields, as a set of at most one
FirstNumberOf(vs) ==
    IF FirstNonNullish(vs).t = "number" THEN {FirstNonNullish(vs).n} ELSE {}

\* C28, as stated: the status falls back from the response to the first
\* result to the root, so with a response that holds no status a finite
\* number in the first result or in the root is the status reported and
\* the report is not rejected.
C28_Original ==
    (fnOut # Pending /\ ResponseWithoutStatus) =>
        \A n \in FirstNumberOf(StatusPair(FirstOf) \o StatusPair(RootOf)) :
            ReturnsText /\ StatusReported = n

\* C28, as the code has it: the status falls back in two levels only.
\* With a response present the status fields of the first result are never
\* consulted: a response without a status leaves the root's fields alone
\* to decide, and the report is rejected with E_REPORT when the root has
\* none, whatever the first result carries.  Without a response the first
\* result is consulted before the root.
C28_TwoLevelFallback ==
    fnOut # Pending =>
        /\ ResponseWithoutStatus =>
               /\ \A n \in FirstNumberOf(StatusPair(RootOf)) :
                      ReturnsText /\ StatusReported = n
               /\ StatusPair(RootOf) = <<Undefined, Undefined>> => FailsWithReport
        /\ (FirstOf.t = "object" /\ ResponseOf.t # "object") =>
               \A n \in FirstNumberOf(StatusPair(FirstOf) \o StatusPair(RootOf)) :
                   ReturnsText /\ StatusReported = n

\* the first result carries status 301 next to a response without a status
\* and a root without one, and the report was rejected
C28_Witness ==
    /\ fnOut # Pending
    /\ ResponseWithoutStatus
    /\ Field(FirstOf, StatusKey) = Num(301)
    /\ StatusPair(RootOf) = <<Undefined, Undefined>>
    /\ FailsWithReport

\* the path of the file relative to the root is empty, begins with '..' or
\* is absolute
OutsideRoot(root, file) ==
    LET rel == PathRelative(root, file)
    IN  \/ rel = <<>>
        \/ Len(rel) >= 2 /\ SubSeq(rel, 1, 2) = <<".", ".">>
        \/ rel # <<>> /\ rel[1] = "/"

\* the files of the list that come before the first one outside the root
RECURSIVE BeforeFirstOutside(_, _)
BeforeFirstOutside(root, files) ==
    IF files = <<>> \/ OutsideRoot(root, Head(files)) THEN <<>>
    ELSE <<Head(files)>> \o BeforeFirstOutside(root, Tail(files))

SomeOutside ==
    \E i \in DOMAIN fnIn.files : OutsideRoot(fnIn.root, fnIn.files[i])

\* the one file of buildSingleToolMap has a usable stem and tool name
SingleNamed ==
    /\ sanitizeSegment(BasenameNoBru(fnIn.files[1])) # <<>>
    /\ IF fnIn.nameOverride # None
       THEN validateToolName(fnIn.nameOverride[1]).ok
       ELSE validateToolName(NamingPrefix \o <<"_">>
                \o sanitizeSegment(BasenameNoBru(fnIn.files[1]))).ok

C27_Original ==
    fnOut # Pending =>
        \A i \in DOMAIN fnIn.files :
            OutsideRoot(fnIn.root, fnIn.files[i]) =>
                /\ fnIn.files[i] \notin Range(fnOut.collection.reads)
                /\ i = 1 => fnIn.files[i] \notin Range(fnOut.single.reads)

\* C27, as the code has it: buildCollectionToolMap never reads a file
\* outside the root, and reads nothing after the first such file;
\* buildSingleToolMap reads its file before the containment check, so a
\* file outside the root with a usable name has been read when the build
\* fails.
C27_SingleReadsFirst ==
    fnOut # Pending =>
        /\ \A i \in DOMAIN fnIn.files :
               OutsideRoot(fnIn.root, fnIn.files[i]) =>
                   /\ fnIn.files[i] \notin Range(fnOut.collection.reads)
                   /\ Range(fnOut.collection.reads)
                          \subseteq { fnIn.files[j] : j \in 1..(i - 1) }
        /\ fnOut.single.reads =
               IF SingleNamed THEN <<fnIn.files[1]>> ELSE <<>>

\* the one file lies outside the root: buildSingleToolMap failed with
\* E_DISCOVERY after reading it
C27_Witness ==
    /\ fnOut # Pending
    /\ fnIn.files[1] = FileOut
    /\ OutsideRoot(fnIn.root, FileOut)
    /\ ~fnOut.single.ok
    /\ fnOut.single.code = "E_DISCOVERY"
    /\ fnOut.single.reads = <<FileOut>>

\* the lines of the text, and the first of them that opens a docs block
\* (0 when none does)
DocLines == SplitLines(fnIn)

FirstDocsLine ==
    IF \E i \in DOMAIN DocLines : DocsOpenEnd(DocLines[i]) # 0
    THEN CHOOSE i \in DOMAIN DocLines :
             /\ DocsOpenEnd(DocLines[i]) # 0
             /\ \A j \in 1..(i - 1) : DocsOpenEnd(DocLines[j]) = 0
    ELSE 0

\* what follows the brace on the opening line, trimmed
OpeningRest ==
    Trim(SubSeq(DocLines[FirstDocsLine], DocsOpenEnd(DocLines[FirstDocsLine]),
                Len(DocLines[FirstDocsLine])))

\* the first line after the opening one that holds a closing brace alone,
\* or the line after the last
ClosingLine ==
    IF \E j \in (FirstDocsLine + 1)..Len(DocLines) : Trim(DocLines[j]) = <<"}">>
    THEN CHOOSE j \in (FirstDocsLine + 1)..Len(DocLines) :
             /\ Trim(DocLines[j]) = <<"}">>
             /\ \A k \in (FirstDocsLine + 1)..(j - 1) : Trim(DocLines[k]) # <<"}">>
    ELSE Len(DocLines) + 1

\* the lines between the opening line and the closing line, joined and
\* trimmed: None when nothing is left
FollowingText ==
    DocsFinish([k \in 1..(ClosingLine - FirstDocsLine - 1) |->
                   DocLines[FirstDocsLine + k]])

\* the first docs block opens and closes on its line with nothing between
\* the braces
FirstBlockEmptyInline == FirstDocsLine # 0 /\ OpeningRest = <<"}">>

\* the first docs block is of the inline form with text between the braces
FirstBlockInline ==
    /\ FirstDocsLine # 0
    /\ OpeningRest # <<"}">>
    /\ OpeningRest # <<>>
    /\ OpeningRest[Len(OpeningRest)] = "}"

\* C24, as stated: the text of the first docs block is returned, trimmed;
\* nothing is returned when there is no docs block or when the first block
\* is empty, whatever follows it.
C24_Original ==
    fnOut # Pending =>
        /\ FirstDocsLine = 0 => fnOut.docs = None
        /\ FirstBlockEmptyInline => fnOut.docs = None
        /\ FirstBlockInline =>
               fnOut.docs = DocsFinish(<<Trim(SubSeq(OpeningRest, 1,
                                                     Len(OpeningRest) - 1))>>)

\* C24, as the code has it: nothing is returned when there is no docs
\* block, and a first block of the inline form with text in it yields that
\* text, trimmed; but a first block written `docs {}` is taken for the
\* opening of a multi-line block, and the lines that follow it, up to a
\* line holding a closing brace alone or to the end of the text, are
\* returned as its documentation.
C24_EmptyInlineRunsOn ==
    fnOut # Pending =>
        /\ FirstDocsLine = 0 => fnOut.docs = None
        /\ FirstBlockEmptyInline => fnOut.docs = FollowingText
        /\ FirstBlockInline =>
               fnOut.docs = DocsFinish(<<Trim(SubSeq(OpeningRest, 1,
                                                     Len(OpeningRest) - 1))>>)
        /\ (FirstDocsLine # 0 /\ OpeningRest = <<>>) => fnOut.docs = FollowingText

\* an empty docs block followed by a later docs block: the line of the
\* later block was returned as the documentation
C24_Witness ==
    /\ fnOut # Pending
    /\ FirstBlockEmptyInline
    /\ FirstDocsLine = 1
    /\ Len(DocLines) = 2
    /\ DocsOpenEnd(DocLines[2]) # 0
    /\ fnOut.docs = Some(DocLines[2])

\* the server is started in collection mode
ServingCollection ==
    mainPc = "serving" /\ mainConfig.mode = "collection"

\* the discovered files that are not named collection.bru
CallableFiles ==
    { f \in Range(dsResult.value) : ToLowerCase(Basename(f)) # CollectionBru }

\* C25, as stated: in collection mode the server is started only with a
\* registry of at least one tool.
C25_Original == ServingCollection => Len(srvTools) >= 1

\* C25, as the code has it: start-up is aborted for want of files only when
\* discovery found no .bru file at all; a server started in collection
\* mode holds one tool for each discovered file that is not named
\* collection.bru, which is none when collection.bru is the only file
\* found.
C25_OneToolPerCallableFile ==
    /\ ServingCollection =>
          /\ dsResult.ok
          /\ Len(dsResult.value) >= 1
          /\ Len(srvTools) = Cardinality(CallableFiles)
          /\ { srvTools[i].bruFileAbs : i \in DOMAIN srvTools } = CallableFiles
    /\ (mainPc = "failed" /\ startError.what = "no files") =>
          dsResult.ok /\ dsResult.value = <<>>

\* the only file discovered is a collection.bru: the server is started
\* with an empty registry, and a list-tools request was answered with no
\* tool
C25_Witness ==
    /\ ServingCollection
    /\ Len(dsResult.value) = 1
    /\ CallableFiles = {}
    /\ srvTools = <<>>
    /\ lists # <<>>
    /\ lists[1] = <<>>

\* the file is named just '.bru'
StemEmpty(file) == Basename(file) = DotBru

\* the tool registered for the file, when the registry was built
ToolOf(file) ==
    fnOut.collection.value[CHOOSE i \in DOMAIN fnOut.collection.value :
                               fnOut.collection.value[i].bruFileAbs = file]

\* C26, as stated: every identifier registered in collection mode is the
\* prefix, '_' and at least one sanitized segment, and a list that holds a
\* file named '.bru' is refused with a naming error.
C26_Original ==
    fnOut # Pending =>
        /\ fnOut.collection.ok =>
               \A i \in DOMAIN fnOut.collection.value :
                   Len(fnOut.collection.value[i].toolName)
                       > Len(NamingPrefix \o <<"_">>)
        /\ (\E i \in DOMAIN fnIn.files : StemEmpty(fnIn.files[i])) =>
               ~fnOut.collection.ok

\* C26, as the code has it: a file named '.bru' leaves no segment of its
\* own, and no assertion fails for that: lying in the root it is
\* registered under the bare identifier prefix_, and lying in a directory
\* it is registered under the identifier of that directory.
C26_EmptyStemRegistered ==
    fnOut # Pending =>
        /\ fnOut.collection.ok =>
               \A i \in DOMAIN fnIn.files :
                   StemEmpty(fnIn.files[i]) =>
                       ToolOf(fnIn.files[i]).toolName =
                           NamingPrefix \o <<"_">>
                           \o JoinWith(SplitOn(PathRelative(fnIn.root,
                                                   Dirname(fnIn.files[i])),
                                               PathSep), <<"_">>)
        /\ (/\ Range(fnIn.files) \subseteq {FileDot, FileADot}
            /\ Cardinality(Range(fnIn.files)) = Len(fnIn.files)
            /\ ~SomeOutside) => fnOut.collection.ok

\* /r/.bru and /r/a/.bru under the root /r: the registry holds the
\* identifiers p_ and p_a
C26_Witness ==
    /\ fnOut # Pending
    /\ fnIn.root = RootAbs
    /\ Range(fnIn.files) = {FileDot, FileADot}
    /\ fnOut.collection.ok
    /\ ToolNames(fnOut.collection.value) = {<<"p", "_">>, <<"p", "_", "a">>}

\* the child of the call closed with the timeout not fired
ClosedBeforeTimeout(c) == calls[c].child = "closed" /\ ~calls[c].timedOut

\* once a child has closed before the timeout, the call is over: nothing
\* of its record changes any more
ClosedIsFinal ==
    \A c \in 1..MaxCalls : ClosedBeforeTimeout(c) => calls'[c] = calls[c]

\* C29: when the child closes before the timeout fires, the close handler
\* clears the timer: the timer never fires afterwards, no kill timer is
\* ever set, no signal is sent to the child at any time, and the call does
\* not end in E_TIMEOUT.
C29_CloseCancelsTimer ==
    /\ [](\A c \in 1..MaxCalls :
             ClosedBeforeTimeout(c) =>
                 /\ calls[c].timer = "cleared"
                 /\ calls[c].killTimer = "none"
                 /\ calls[c].signals = <<>>
                 /\ Returned(c)
                 /\ ~FailedWith(c, "E_TIMEOUT"))
    /\ [][ClosedIsFinal]_vars

\* a child closed in time and its call returned text, next to a call whose
\* timer did fire
C29_Witness ==
    \E b \in 1..MaxCalls : \E c \in 1..MaxCalls :
        /\ ClosedBeforeTimeout(c)
        /\ calls[c].timer = "cleared"
        /\ ~Outcome(c).isError
        /\ calls[b].timer = "fired"
        /\ calls[b].signals # <<>>

====
